---------------------------- MODULE Spec2Model ----------------------------
(***************************************************************************)
(* Solution reconciliation core of symphony: the memory state store, the   *)
(* MQTT target provider, the skip detection and SolutionManager.Reconcile. *)
(***************************************************************************)
EXTENDS Integers, Sequences, FiniteSets, TLC

VARIABLES
    Data,        \* MemoryStateProvider.Data: id -> StateEntry
    upserts,     \* number of Upsert calls made on the store so far
    lastUpsert,  \* the last Upsert call: what was stored before, what it returned
    returned     \* id -> the values successful Upserts returned, in call order

storeVars == <<Data, upserts, lastUpsert, returned>>

VARIABLES
    Initialized, \* MQTTTargetProvider.Initialized
    inits,       \* what Init has done so far, and what its last call returned
    nreq,        \* number of requests the callers have made so far
    call,        \* caller -> its provider call in progress (req 0: none)
    lastDone,    \* the provider call that returned last, with its result
    inflight,    \* responses the transport carries and has not delivered yet
    dispatcher,  \* <<>>, or <<r>>: the subscription callback blocked on sending r
    unsolicited  \* number of messages on the response topic that answer no request

mqttVars == <<Initialized, inits, nreq, call, lastDone, inflight, dispatcher,
             unsolicited>>

VARIABLES
    mgrCfg,      \* the manager's configuration: IsTarget, TargetNames
    env,         \* the manager's surroundings: its clients, their deployments, the store
    lockHolder,  \* the caller that holds the package's lock, "" when it is free
    rc,          \* caller -> its Reconcile call: position and locals
    ncalls,      \* the Reconcile calls made so far
    deployed,    \* target -> the components its provider has, by name
    hbs,         \* the heartbeat tasks that have not returned
    published,   \* the heartbeat events published
    nticks,      \* the times a heartbeat ticker fired
    last         \* the Reconcile call that returned last

mgrVars == <<mgrCfg, env, lockHolder, rc, ncalls, deployed, hbs, published, nticks, last>>

VARIABLES
    skipIn,      \* the arguments of one canSkipStep call
    skipOut      \* <<what the call returned>>, <<>> before it is made

skipVars == <<skipIn, skipOut>>

VARIABLES
    sortIn,      \* the argument of one sortByDepedencies call
    sortOut      \* <<what the call returned>>, <<>> before it is made

sortVars == <<sortIn, sortOut>>

VARIABLES
    mgrInit      \* one SolutionManager.Init call: its configuration, and what it returned

initVars == <<mgrInit>>

VARIABLES
    inst         \* the Instance object of one InstanceReconciler.Reconcile call, and the call

k8sVars == <<inst>>

VARIABLES
    proc,        \* caller -> where it is in Reconcile, Poll and the calls they make on the shared provider
    nproc        \* the Reconcile and Poll calls made so far

pollVars == <<proc, nproc>>

VARIABLES
    listIn,      \* the request of one MemoryStateProvider.List call
    listOut      \* <<what the call returned>>, <<>> before it is made

listVars == <<listIn, listOut>>

VARIABLES
    getIn,       \* the manager, the arguments and the providers of one SolutionManager.Get call
    getOut       \* <<what the call returned>>, <<>> before it is made

getVars == <<getIn, getOut>>

vars == <<storeVars, mqttVars, skipVars, sortVars, mgrVars, initVars, k8sVars, pollVars, listVars, getVars>>

otherThanStore == <<mqttVars, skipVars, sortVars, mgrVars, initVars, k8sVars, pollVars, listVars, getVars>>
otherThanMqtt == <<storeVars, skipVars, sortVars, mgrVars, initVars, k8sVars, pollVars, listVars, getVars>>
otherThanSkip == <<storeVars, mqttVars, sortVars, mgrVars, initVars, k8sVars, pollVars, listVars, getVars>>
otherThanSort == <<storeVars, mqttVars, skipVars, mgrVars, initVars, k8sVars, pollVars, listVars, getVars>>
otherThanMgr == <<upserts, lastUpsert, returned, mqttVars, skipVars, sortVars, initVars, k8sVars, pollVars, listVars, getVars>>
otherThanK8s == <<storeVars, mqttVars, skipVars, sortVars, mgrVars, initVars, pollVars, listVars, getVars>>
otherThanList == <<storeVars, mqttVars, skipVars, sortVars, mgrVars, initVars, k8sVars, pollVars, getVars>>
otherThanGet == <<storeVars, mqttVars, skipVars, sortVars, mgrVars, initVars, k8sVars, pollVars, listVars>>
otherThanPoll == <<storeVars, mqttVars, skipVars, sortVars, initVars, k8sVars, mgrCfg,
                   env, rc, ncalls, deployed, hbs, published, nticks, last, listVars, getVars>>
otherThanInit == <<storeVars, mqttVars, skipVars, sortVars, env, lockHolder, rc, ncalls,
                   deployed, hbs, published, nticks, last, k8sVars, pollVars, listVars, getVars>>

(***************************************************************************)
(* Strings and integers (strconv).                                         *)
(***************************************************************************)
MaxTag == 2

Digit == <<"0", "1", "2", "3", "4", "5", "6", "7", "8", "9">>

RECURSIVE FormatInt(_)
FormatInt(n) ==
    IF n < 10 THEN Digit[n + 1]
    ELSE FormatInt(n \div 10) \o Digit[(n % 10) + 1]

\* the integers whose decimal form the model can meet
IntRange == 0 .. (MaxTag + 12)

ParseOk(s) == \E n \in IntRange : FormatInt(n) = s

ParseInt(s) == CHOOSE n \in IntRange : FormatInt(n) = s

\* strings.HasPrefix
HasPrefix(text, prefix) ==
    /\ Len(prefix) <= Len(text)
    /\ SubSeq(text, 1, Len(prefix)) = prefix

\* strings.Index: the place of the first sub in text, counted from 0, or -1
RECURSIVE IndexFrom(_, _, _)
IndexFrom(text, sub, at) ==
    IF Len(text) < Len(sub) THEN -1
    ELSE IF HasPrefix(text, sub) THEN at
    ELSE IndexFrom(Tail(text), sub, at + 1)

Index(text, sub) == IndexFrom(text, sub, 0)

(***************************************************************************)
(* MemoryStateProvider                                                     *)
(***************************************************************************)
StoreIds == {"k1", "k2"}

\* ETags a request can carry: none, a decimal number, or text that is no number
RequestETags == {"", "abc"} \cup {FormatInt(n) : n \in 0 .. MaxTag}

Lookup(m, k) == IF k \in DOMAIN m THEN m[k] ELSE ""

MapPut(m, k, v) == [x \in (DOMAIN m) \cup {k} |-> IF x = k THEN v ELSE m[x]]

EmptyMap == [x \in {} |-> ""]

\* F applied to the value of x, which is computed once
With(x, F(_)) == CHOOSE y \in {F(v) : v \in {x}} : TRUE

StateEntry(id, body, etag) == [ID |-> id, Body |-> body, ETag |-> etag]

\* lines 89-96: the tag is computed from the ETag of the request
NextTag(etag) ==
    IF etag # "" /\ ParseOk(etag) THEN FormatInt(ParseInt(etag) + 1) ELSE "1"

\* a body is a map of top-level fields; "status" holds a map when present
HasStatusMap(body) == "status" \in DOMAIN body

\* lines 112-124: the new body's status keys are written over the existing body's
MergeStatus(existing, new) ==
    LET old == IF HasStatusMap(existing) THEN existing["status"] ELSE EmptyMap
        st  == [k \in (DOMAIN old) \cup (DOMAIN new["status"]) |->
                   IF k \in DOMAIN new["status"] THEN new["status"][k] ELSE old[k]]
    IN  MapPut(existing, "status", st)

\* Upsert: [data, ret, err]; err is "" (nil), "NotFound" or "panic"
Upsert(data, entry, updateStateOnly) ==
    LET tag == NextTag(entry.ETag)
        id  == entry.ID
    IN  IF updateStateOnly
        THEN IF id \notin DOMAIN data
             THEN [data |-> data, ret |-> "", err |-> "NotFound"]
             ELSE IF ~HasStatusMap(entry.Body)
                  \* mapType["status"].(map[string]interface{}) on a nil value
                  THEN [data |-> data, ret |-> "", err |-> "panic"]
                  ELSE [data |-> MapPut(data, id,
                                    StateEntry(id, MergeStatus(data[id].Body, entry.Body), tag)),
                        ret |-> id, err |-> ""]
        ELSE [data |-> MapPut(data, id, StateEntry(id, entry.Body, tag)),
              ret |-> id, err |-> ""]

\* Get: [found, entry]
StoreGet(data, id) ==
    IF id \in DOMAIN data THEN [found |-> TRUE, entry |-> data[id]]
    ELSE [found |-> FALSE, entry |-> StateEntry("", EmptyMap, "")]

\* Delete: the store without id; NotFound when it holds no such entry
StoreDelete(data, id) == [x \in (DOMAIN data) \ {id} |-> data[x]]

MaxUpserts == 3

StatusMaps == {[x \in {"phase"} |-> "v1"], [x \in {"phase"} |-> "v2"],
               [x \in {"note"} |-> "n1"]}

StoreBodies ==
    {[x \in {"spec"} |-> "s1"], [x \in {"spec"} |-> "s2"]}
    \cup {[x \in {"status"} |-> m] : m \in StatusMaps}

NoUpsert == [id |-> "", ok |-> FALSE, err |-> "", ret |-> "", had |-> FALSE,
             before |-> "", after |-> "", reqTag |-> "", stateOnly |-> FALSE,
             body |-> EmptyMap, was |-> EmptyMap, same |-> TRUE]

StoreInit ==
    /\ Data = [x \in {} |-> StateEntry("", EmptyMap, "")]
    /\ upserts = 0
    /\ lastUpsert = NoUpsert
    /\ returned = [id \in StoreIds |-> <<>>]

StoreUpsert ==
    \E id \in StoreIds, tag \in RequestETags, body \in StoreBodies, so \in BOOLEAN :
        LET res == Upsert(Data, StateEntry(id, body, tag), so)
        IN  /\ upserts < MaxUpserts
            /\ upserts' = upserts + 1
            /\ Data' = res.data
            /\ lastUpsert' = [id |-> id, ok |-> res.err = "", err |-> res.err,
                              ret |-> res.ret,
                              had |-> id \in DOMAIN Data,
                              before |-> IF id \in DOMAIN Data THEN Data[id].ETag ELSE "",
                              after |-> IF id \in DOMAIN res.data THEN res.data[id].ETag ELSE "",
                              reqTag |-> tag, stateOnly |-> so, body |-> body,
                              was |-> IF id \in DOMAIN Data THEN Data[id].Body
                                      ELSE EmptyMap,
                              same |-> res.data = Data]
            /\ returned' = IF res.err = ""
                           THEN [returned EXCEPT ![id] = Append(@, res.ret)]
                           ELSE returned
            /\ UNCHANGED otherThanStore

StoreDeleteEntry ==
    \E id \in StoreIds :
        /\ id \in DOMAIN Data
        /\ Data' = StoreDelete(Data, id)
        /\ lastUpsert' = NoUpsert
        /\ UNCHANGED <<upserts, returned>>
        /\ UNCHANGED otherThanStore

StoreNext == StoreUpsert \/ StoreDeleteEntry

(***************************************************************************)
(* MQTTTargetProvider                                                      *)
(***************************************************************************)
MqttCallers == {"c1", "c2"}

\* the operation kinds, as the call-context tags name them
Kinds == {"Get", "Remove", "NeedsUpdate", "NeedsRemove", "Apply"}

CallContext(kind) == "TargetProvider-" \o kind

\* the states a response can carry; v1alpha2.OK and v1alpha2.Accepted are success
ResponseStates == {"OK", "Accepted", "BadRequest"}

MaxRequests == 2
MaxUnsolicited == 1
MaxInits == 2

\* line 150
IsOK(state) == state = "OK" \/ state = "Accepted"

\* lines 149-155: the response as the callback hands it to a channel
ProxyResponse(msg, state) == [IsOK |-> IsOK(state), State |-> state,
                              ctx |-> msg.ctx, req |-> msg.req]

\* a dispatcher that sends every response to GetChan
ChannelOfGetOnly(ctx) == "Get"

\* lines 156-175: the delivery channel a call-context selects, "" for none
ChannelOf(ctx) ==
    IF ctx = "TargetProvider-Get" THEN "Get"
    ELSE IF ctx = "TargetProvider-Remove" THEN "Remove"
    ELSE IF ctx = "TargetProvider-NeedsUpdate" THEN "NeedsUpdate"
    ELSE IF ctx = "TargetProvider-NeedsRemove" THEN "NeedsRemove"
    ELSE IF ctx = "TargetProvider-Apply" THEN "Apply"
    ELSE ""

\* what a call returns for a response r: Get, Remove and Apply return nil or an
\* error of the response's state; NeedsUpdate and NeedsRemove return a boolean
FromResponse(kind, r) ==
    IF kind \in {"NeedsUpdate", "NeedsRemove"}
    THEN [how |-> "response", value |-> r.IsOK, err |-> "", from |-> r.req,
          ctx |-> r.ctx, state |-> r.State]
    ELSE [how |-> "response", value |-> r.IsOK,
          err |-> IF r.IsOK THEN "" ELSE r.State, from |-> r.req, ctx |-> r.ctx,
          state |-> r.State]

\* a NeedsUpdate or NeedsRemove whose timeout returns true
FromTimeoutAsNeeded(kind) ==
    [how |-> "timeout", value |-> kind \in {"NeedsUpdate", "NeedsRemove"},
     err |-> IF kind \in {"NeedsUpdate", "NeedsRemove"} THEN "" ELSE "InternalError",
     from |-> 0, ctx |-> "", state |-> ""]

\* what a call returns when its time.After(8 * time.Second) fires first
FromTimeout(kind) ==
    IF kind \in {"NeedsUpdate", "NeedsRemove"}
    THEN [how |-> "timeout", value |-> FALSE, err |-> "", from |-> 0, ctx |-> "",
          state |-> ""]
    ELSE [how |-> "timeout", value |-> FALSE, err |-> "InternalError", from |-> 0,
          ctx |-> "", state |-> ""]

\* what a call returns when Publish fails
FromPublishError(kind) ==
    IF kind \in {"NeedsUpdate", "NeedsRemove"}
    THEN [how |-> "publish", value |-> FALSE, err |-> "", from |-> 0, ctx |-> "",
          state |-> ""]
    ELSE [how |-> "publish", value |-> FALSE, err |-> "token", from |-> 0, ctx |-> "",
          state |-> ""]

NoResult == [how |-> "", value |-> FALSE, err |-> "", from |-> 0, ctx |-> "",
          state |-> ""]

NoCall == [req |-> 0, kind |-> "", dropped |-> FALSE]

Waiting(c) == call[c].req # 0

\* a returned call: own tells whether the response it returned, if any, answers
\* the request that this call published, ctx is the call-context of that response
Returned(c, result) ==
    [kind |-> c.kind, dropped |-> c.dropped, how |-> result.how,
     value |-> result.value, err |-> result.err, ctx |-> result.ctx,
     state |-> result.state,
     own |-> result.how = "response" /\ result.from = c.req]

MqttInit ==
    /\ Initialized = FALSE
    /\ inits = [connects |-> 0, subscribes |-> 0, chans |-> 0, ret |-> "", again |-> FALSE]
    /\ nreq = 0
    /\ call = [c \in MqttCallers |-> NoCall]
    /\ lastDone = Returned(NoCall, NoResult)
    /\ inflight = {}
    /\ dispatcher = <<>>
    /\ unsolicited = 0

\* lines 118-120 without the test of the flag
InitNeverReturnsEarly(initialized) == FALSE

\* lines 118-120: if i.Initialized { return nil }
InitReturnsEarly(initialized) == initialized

\* Init, lines 109-185, which runs under the package's lock. A failed connect
\* leaves the driver as it was; a failed subscribe leaves it connected, with new
\* channels, and not Initialized. ret is what the call returned, again whether
\* the driver was Initialized when it was made
ProviderInit ==
    \E connectOK \in BOOLEAN, subscribe \in {"ok", "subscription exists", "error"} :
        /\ IF InitReturnsEarly(Initialized)
           THEN /\ inits' = [inits EXCEPT !.ret = "nil", !.again = TRUE]
                /\ UNCHANGED Initialized
           ELSE IF ~connectOK
           THEN /\ inits' = [inits EXCEPT !.ret = "failed to connect to MQTT broker",
                                          !.again = Initialized]
                /\ UNCHANGED Initialized
           ELSE /\ inits.connects < MaxInits
                /\ inits' = [connects |-> inits.connects + 1,
                             subscribes |-> IF subscribe = "ok"
                                            THEN inits.subscribes + 1
                                            ELSE inits.subscribes,
                             chans |-> inits.chans + 1,
                             ret |-> IF subscribe = "error"
                                     THEN "failed to subscribe to response topic"
                                     ELSE "nil",
                             again |-> Initialized]
                /\ Initialized' = (Initialized \/ subscribe # "error")
        /\ UNCHANGED <<nreq, call, lastDone, inflight, dispatcher, unsolicited>>
        /\ UNCHANGED otherThanMqtt

\* Get, Remove, NeedsUpdate, NeedsRemove, Apply up to the select: the request is
\* published; the transport will carry a response to it or drops the response
ProviderCall ==
    \E c \in MqttCallers, kind \in Kinds, publishOK \in BOOLEAN,
       answer \in {"answered", "dropped"} :
        /\ Initialized
        /\ ~Waiting(c)
        /\ nreq < env.requests
        /\ nreq' = nreq + 1
        /\ IF publishOK
           THEN /\ call' = [call EXCEPT ![c] =
                               [req |-> nreq + 1, kind |-> kind,
                                dropped |-> answer = "dropped"]]
                /\ UNCHANGED lastDone
                /\ inflight' = IF answer = "dropped" THEN inflight
                               ELSE inflight \cup
                                    {[ctx |-> CallContext(kind), req |-> nreq + 1]}
           ELSE /\ answer = "dropped"
                /\ lastDone' = Returned([req |-> nreq + 1, kind |-> kind,
                                          dropped |-> FALSE], FromPublishError(kind))
                /\ UNCHANGED <<call, inflight>>
        /\ UNCHANGED <<Initialized, inits, dispatcher, unsolicited>>
        /\ UNCHANGED otherThanMqtt

\* a message on the response topic that answers no request of this driver and
\* carries a call-context that names no operation of it
Unsolicited ==
    \E ctx \in {"other"} :
        /\ Initialized
        /\ unsolicited < MaxUnsolicited
        /\ unsolicited' = unsolicited + 1
        /\ inflight' = inflight \cup {[ctx |-> ctx, req |-> 0]}
        /\ UNCHANGED <<Initialized, inits, nreq, call, lastDone, dispatcher>>
        /\ UNCHANGED otherThanMqtt

\* the subscription callback, lines 146-176, up to its channel send: the
\* client runs one callback at a time, and a send blocks until a caller receives.
\* The state the response carries is read here
Dispatch ==
    \E msg \in inflight, state \in ResponseStates :
        /\ dispatcher = <<>>
        /\ inflight' = inflight \ {msg}
        /\ dispatcher' = IF ChannelOf(msg.ctx) = "" THEN <<>>
                         ELSE <<ProxyResponse(msg, state)>>
        /\ UNCHANGED <<Initialized, inits, nreq, call, lastDone, unsolicited>>
        /\ UNCHANGED otherThanMqtt

\* the select of a call receives from its channel, e.g. lines 383-388
Receive ==
    \E c \in MqttCallers :
        /\ Waiting(c)
        /\ dispatcher # <<>>
        /\ ChannelOf(dispatcher[1].ctx) = call[c].kind
        /\ lastDone' = Returned(call[c], FromResponse(call[c].kind, dispatcher[1]))
        /\ call' = [call EXCEPT ![c] = NoCall]
        /\ dispatcher' = <<>>
        /\ UNCHANGED <<Initialized, inits, nreq, inflight, unsolicited>>
        /\ UNCHANGED otherThanMqtt

\* the select of a call takes its timeout, e.g. lines 389-390
Timeout ==
    \E c \in MqttCallers :
        /\ Waiting(c)
        /\ lastDone' = Returned(call[c], FromTimeout(call[c].kind))
        /\ call' = [call EXCEPT ![c] = NoCall]
        /\ UNCHANGED <<Initialized, inits, nreq, inflight, dispatcher, unsolicited>>
        /\ UNCHANGED otherThanMqtt

MqttNext == ProviderInit \/ ProviderCall \/ Unsolicited \/ Dispatch \/ Receive \/ Timeout

(***************************************************************************)
(* Deployment model: components, states, plans                             *)
(***************************************************************************)
TargetOrder == <<"T1", "T2">>

AllTargets == {TargetOrder[i] : i \in DOMAIN TargetOrder}

Comp(name, type, ver, deps) == [Name |-> name, Type |-> type, Ver |-> ver, Deps |-> deps]

Key(name, target) == name \o "::" \o target

\* the role of a component: its type, "container" when it has none
RoleOf(c) == IF c.Type = "" THEN "container" ELSE c.Type

PlainRoles == {"container", "helm"}

\* strings.HasPrefix(role, "-")
HasDashPrefix(role) ==
    \E r \in PlainRoles \cup {"-" \o x : x \in PlainRoles} : role = "-" \o r

RECURSIVE Reverse(_)
Reverse(q) == IF q = <<>> THEN <<>> ELSE Append(Reverse(Tail(q)), Head(q))

SortError == "circular dependencies or unresolved dependencies detected in components"

DependsOn(c, name) == \E k \in DOMAIN c.Deps : c.Deps[k] = name

RECURSIVE IndexesDescending(_, _)
\* the indexes 1..n that satisfy sel, descending
IndexesDescending(n, sel) ==
    IF n = 0 THEN <<>>
    ELSE IF n \in sel THEN <<n>> \o IndexesDescending(n - 1, sel)
    ELSE IndexesDescending(n - 1, sel)

RECURSIVE Indexes(_, _)
\* the indexes 1..n that satisfy sel, ascending
Indexes(n, sel) ==
    IF n = 0 THEN <<>>
    ELSE IF n \in sel THEN Append(Indexes(n - 1, sel), n) ELSE Indexes(n - 1, sel)

RECURSIVE KahnLoop(_, _, _, _)
\* lines 625-643: emit the head of the queue, lower the in-degree of every
\* component that depends on it, enqueue those that reach zero
KahnLoop(components, inDegrees, queue, ret) ==
    IF queue = <<>> THEN ret
    ELSE With(components[Head(queue)], LAMBDA emitted :
         With({i \in DOMAIN components : DependsOn(components[i], emitted.Name)},
              LAMBDA hit :
         With([i \in DOMAIN components |->
                  IF i \in hit THEN inDegrees[i] - 1 ELSE inDegrees[i]],
              LAMBDA newDeg :
         With(Tail(queue) \o Indexes(Len(components), {i \in hit : newDeg[i] = 0}),
              LAMBDA newQueue :
             KahnLoop(components, newDeg, newQueue, Append(ret, emitted))))))

\* sortByDepedencies without lines 644-646: what was emitted is returned
sortUnchecked(components) ==
    [err |-> "",
     list |-> KahnLoop(components, [i \in DOMAIN components |-> Len(components[i].Deps)],
                       Indexes(Len(components),
                               {i \in DOMAIN components : Len(components[i].Deps) = 0}),
                       <<>>)]

\* sortByDepedencies with every in-degree 0: the components in the order given
sortNoDegrees(components) ==
    [err |-> "",
     list |-> KahnLoop(components, [i \in DOMAIN components |-> 0],
                       Indexes(Len(components), DOMAIN components), <<>>)]

\* sortByDepedencies, lines 614-648: [err, list]
sortByDepedencies(components) ==
    With([i \in DOMAIN components |-> Len(components[i].Deps)], LAMBDA inDegrees :
    With(KahnLoop(components, inDegrees,
                  Indexes(Len(components), {i \in DOMAIN components : inDegrees[i] = 0}),
                  <<>>),
         LAMBDA ret :
        IF Len(ret) # Len(components)
        THEN [err |-> SortError, list |-> <<>>]
        ELSE [err |-> "", list |-> ret]))

\* the arguments sortByDepedencies is applied to: up to three components with
\* different names, each with up to MaxDeps dependencies, listed in name order,
\* on components of the list, on itself, on a component that is not in the list
\* ("X"), or on the same component twice
MaxDeps == 2

SortNames == {"A", "B", "C"}

DepNames == <<"A", "B", "C", "X">>

\* the lists of dependencies: positions of DepNames, never descending
DepLists ==
    {[i \in DOMAIN q |-> DepNames[q[i]]] :
        q \in {x \in UNION {[1 .. n -> DOMAIN DepNames] : n \in 0 .. MaxDeps} :
                  \A i \in DOMAIN x : i = 1 \/ x[i - 1] <= x[i]}}

SortLists ==
    {c \in UNION {[1 .. n -> SortNames] : n \in 0 .. Cardinality(SortNames)} :
        \A i, j \in DOMAIN c : i # j => c[i] # c[j]}

NoSortInput == [on |-> FALSE, components |-> <<>>]

SortInit ==
    /\ \E names \in SortLists :
         \E deps \in [DOMAIN names -> DepLists] :
            sortIn = [on |-> TRUE,
                      components |-> [i \in DOMAIN names |->
                                         Comp(names[i], "", 1, deps[i])]]
    /\ sortOut = <<>>

SortCall ==
    /\ sortIn.on
    /\ sortOut = <<>>
    /\ sortOut' = <<sortByDepedencies(sortIn.components)>>
    /\ UNCHANGED sortIn
    /\ UNCHANGED otherThanSort

SortNext == SortCall

\* the (component, target) pairs a deployment binds
Bindings(dep) ==
    {p \in {<<dep.Components[i].Name, t>> : i \in DOMAIN dep.Components,
                                            t \in dep.Targets} :
        p[1] \in dep.Assignments[p[2]]}

ComponentNamed(components, name) ==
    components[CHOOSE i \in DOMAIN components : components[i].Name = name]

EmptyState == [Components |-> <<>>, Targets |-> {}, TargetComponent |-> EmptyMap]

\* NewDeploymentState: the spec's components and targets, and the role of every
\* bound (component, target) pair
NewDeploymentState(dep) ==
    With(Bindings(dep), LAMBDA pairs :
        [Components |-> dep.Components,
         Targets |-> dep.Targets,
         TargetComponent |->
             [k \in {Key(p[1], p[2]) : p \in pairs} |->
                 RoleOf(ComponentNamed(dep.Components,
                                       (CHOOSE q \in pairs : Key(q[1], q[2]) = k)[1]))]])

\* MergeDeploymentStates(a, b): the union of both, b winning where both have a key
MergeDeploymentStates(a, b) ==
    [Components |-> b.Components \o
                    SelectSeq(a.Components,
                              LAMBDA c : \A i \in DOMAIN b.Components :
                                            b.Components[i].Name # c.Name),
     Targets |-> a.Targets \cup b.Targets,
     TargetComponent |->
         [k \in (DOMAIN a.TargetComponent) \cup (DOMAIN b.TargetComponent) |->
             IF k \in DOMAIN b.TargetComponent THEN b.TargetComponent[k]
             ELSE a.TargetComponent[k]]]

\* MarkRemoveAll: every role gets the "-" prefix
MarkRemoveAll(state) ==
    [state EXCEPT !.TargetComponent =
        [k \in DOMAIN state.TargetComponent |-> "-" \o state.TargetComponent[k]]]

\* ClearAllRemoved: the entries with a "-" role are dropped
ClearAllRemoved(state) ==
    [state EXCEPT !.TargetComponent =
        [k \in {x \in DOMAIN state.TargetComponent :
                    ~HasDashPrefix(state.TargetComponent[x])} |->
            state.TargetComponent[k]]]

\* the dependencies of c that are among names
WithDepsAmong(c, names) ==
    [c EXCEPT !.Deps = SelectSeq(c.Deps, LAMBDA d : d \in names)]

\* a component of a step is deleted when its role on the target is a tombstone
\* or the deployment no longer binds it to the target, and updated otherwise
StepAction(dep, state, t, c) ==
    IF \/ HasDashPrefix(state.TargetComponent[Key(c.Name, t)])
       \/ <<c.Name, t>> \notin Bindings(dep)
    THEN "delete" ELSE "update"

\* the step of one target: its components in dependency order, each with its
\* action; a step of deletions only runs in reverse order
StepFor(dep, state, t) ==
    With(SelectSeq(state.Components,
                   LAMBDA c : Key(c.Name, t) \in DOMAIN state.TargetComponent),
         LAMBDA mine :
    With(sortByDepedencies([i \in DOMAIN mine |->
                               WithDepsAmong(mine[i], {mine[j].Name : j \in DOMAIN mine})]),
         LAMBDA sorted :
    With([i \in DOMAIN sorted.list |->
             [Component |-> ComponentNamed(mine, sorted.list[i].Name),
              Action |-> StepAction(dep, state, t, sorted.list[i])]],
         LAMBDA items :
        [err |-> sorted.err, empty |-> mine = <<>>,
         step |-> [Target |-> t, Role |-> "instance",
                   Components |-> IF \A i \in DOMAIN items : items[i].Action = "delete"
                                  THEN Reverse(items) ELSE items]])))

RECURSIVE PlanSteps(_, _, _)
PlanSteps(dep, state, order) ==
    IF order = <<>> THEN [err |-> "", Steps |-> <<>>]
    ELSE With(PlanSteps(dep, state, Tail(order)), LAMBDA rest :
         IF Head(order) \notin state.Targets THEN rest
         ELSE With(StepFor(dep, state, Head(order)), LAMBDA one :
              IF one.empty THEN rest
              ELSE IF one.err # "" THEN [err |-> one.err, Steps |-> <<>>]
              ELSE IF rest.err # "" THEN rest
              ELSE [err |-> "", Steps |-> <<one.step>> \o rest.Steps]))

\* PlanForDeployment: one step per target that has components, targets by name
PlanForDeployment(dep, state) == PlanSteps(dep, state, TargetOrder)

(***************************************************************************)
(* canSkipStep                                                             *)
(***************************************************************************)

\* the provider's validation rule: a component changed when its content did
IsComponentChanged(old, new) == old.Ver # new.Ver \/ old.Type # new.Type

\* lines 461-465: a current component of that name still has a role on the target
DeleteBlocked(newCom, key, currentComponents, state) ==
    \E i \in DOMAIN currentComponents :
        /\ currentComponents[i].Name = newCom.Component.Name
        /\ Lookup(state.TargetComponent, key) # ""

\* line 470: the condition of the update branch
UpdateMatchNoTombstone(c, newCom, key, state) ==
    /\ c.Name = newCom.Component.Name
    /\ Lookup(state.TargetComponent, key) # ""
UpdateMatch(c, newCom, key, state) ==
    /\ c.Name = newCom.Component.Name
    /\ Lookup(state.TargetComponent, key) # ""
    /\ ~HasDashPrefix(Lookup(state.TargetComponent, key))

\* lines 468-481: the first current component that matches decides
UpdateBlocked(newCom, key, currentComponents, state) ==
    LET found == {i \in DOMAIN currentComponents :
                     UpdateMatch(currentComponents[i], newCom, key, state)}
    IN  IF found = {} THEN TRUE
        ELSE LET first == CHOOSE i \in found : \A j \in found : i <= j
             IN  IsComponentChanged(currentComponents[first], newCom.Component)

RECURSIVE SkipLoop(_, _, _, _)
\* lines 458-484
SkipLoop(comps, target, currentComponents, state) ==
    IF comps = <<>> THEN TRUE
    ELSE LET newCom == Head(comps)
             key    == Key(newCom.Component.Name, target)
         IN  IF newCom.Action = "delete"
             THEN IF DeleteBlocked(newCom, key, currentComponents, state) THEN FALSE
                  ELSE SkipLoop(Tail(comps), target, currentComponents, state)
             ELSE IF UpdateBlocked(newCom, key, currentComponents, state) THEN FALSE
                  ELSE SkipLoop(Tail(comps), target, currentComponents, state)

canSkipStep(step, target, currentComponents, state) ==
    SkipLoop(step.Components, target, currentComponents, state)

\* the arguments canSkipStep is applied to
MaxVer == 2

SkipNames == {"A", "B"}

SkipComps == {Comp(n, "", v, <<>>) : n \in SkipNames, v \in 1 .. MaxVer}

\* lists of components with different names
SkipLists ==
    {<<>>} \cup {<<c>> : c \in SkipComps}
    \cup {<<c, d>> : c \in {x \in SkipComps : x.Name = "A"},
                     d \in {x \in SkipComps : x.Name = "B"}}
    \cup {<<d, c>> : c \in {x \in SkipComps : x.Name = "A"},
                     d \in {x \in SkipComps : x.Name = "B"}}

SkipActions(list) == [DOMAIN list -> {"update", "delete"}]

SkipRoles == {"container", "-container"}

SkipStates ==
    UNION {[keys -> SkipRoles] : keys \in SUBSET {Key(n, "T1") : n \in SkipNames}}

SkipInit ==
    /\ \E new \in SkipLists \ {<<>>}, cur \in SkipLists, tc \in SkipStates :
         \E acts \in SkipActions(new) :
            skipIn = [step |-> [Target |-> "T1", Role |-> "instance",
                                Components |-> [i \in DOMAIN new |->
                                    [Component |-> new[i], Action |-> acts[i]]]],
                      current |-> cur,
                      state |-> [Components |-> cur, Targets |-> {"T1"},
                                 TargetComponent |-> tc]]
    /\ skipOut = <<>>

NoSkipInput == [step |-> [Target |-> "", Role |-> "", Components |-> <<>>],
                current |-> <<>>, state |-> EmptyState]

SkipCall ==
    /\ skipOut = <<>>
    /\ skipIn # NoSkipInput
    /\ skipOut' = <<canSkipStep(skipIn.step, skipIn.step.Target, skipIn.current,
                                skipIn.state)>>
    /\ UNCHANGED skipIn
    /\ UNCHANGED otherThanSkip

SkipNext == SkipCall

(***************************************************************************)
(* SolutionManager: Get and the parts of Reconcile                         *)
(***************************************************************************)
Callers == {"r1", "r2"}

MaxCalls == 2

MaxTicks == 1

\* lines 40-41
SYMPHONY_AGENT == "/symphony-agent:"

ENV_NAME == "SYMPHONY_AGENT_ADDRESS"

ContainerImage == "container.image"

\* a component of a target's own spec; an image is a sequence of the pieces of
\* its text, no image leaves the property out
TargetComp(name, image) ==
    [Name |-> name,
     Properties |-> IF image = <<>> THEN EmptyMap
                    ELSE [x \in {ContainerImage} |-> image]]

AgentImage == <<"ghcr.io", SYMPHONY_AGENT, "0.1">>

OtherImage == <<"ghcr.io", "/redis:", "7">>

\* two targets: T1 runs two agents behind a component without image, T2 none
DepBase(gen, bver) ==
    [Instance |-> "i1", Generation |-> gen,
     Components |-> <<Comp("B", "helm", bver, <<"A">>), Comp("A", "", 1, <<>>)>>,
     Targets |-> {"T1", "T2"},
     Assignments |-> [t \in {"T1", "T2"} |-> IF t = "T1" THEN {"A", "B"} ELSE {"B"}],
     TargetComponents |->
         [t \in {"T1", "T2"} |->
             IF t = "T1"
             THEN <<TargetComp("plain", <<>>), TargetComp("agent-1", AgentImage),
                    TargetComp("agent-2", AgentImage)>>
             ELSE <<TargetComp("cache", OtherImage)>>],
     Metadata |-> EmptyMap]

DepShrunk ==
    [Instance |-> "i1", Generation |-> "3",
     Components |-> <<Comp("A", "", 1, <<>>)>>,
     Targets |-> {"T1"},
     Assignments |-> [t \in {"T1"} |-> {"A"}],
     TargetComponents |-> [t \in {"T1"} |-> <<TargetComp("cache", OtherImage)>>],
     Metadata |-> [x \in {ENV_NAME} |-> "stale"]]

DepCycle ==
    [Instance |-> "i2", Generation |-> "1",
     Components |-> <<Comp("A", "", 1, <<"B">>), Comp("B", "", 1, <<"A">>)>>,
     Targets |-> {"T1"},
     Assignments |-> [t \in {"T1"} |-> {"A", "B"}],
     TargetComponents |-> [t \in {"T1"} |-> <<>>],
     Metadata |-> EmptyMap]

Deployments == {DepBase("1", 1), DepBase("2", 2), DepShrunk, DepCycle}

TargetNameArgs == {"", "T1"}

\* a manager that filters no step
FilteredNever(cfg, targetName, step) == FALSE

\* lines 284-290 and 511-516: the steps the manager leaves to others
Filtered(cfg, targetName, step) ==
    \/ cfg.IsTarget /\ step.Target \notin cfg.TargetNames
    \/ targetName # "" /\ targetName # step.Target

\* the target provider's Get: the referenced components it has
ProviderGet(has, refs) ==
    LET there == SelectSeq(refs, LAMBDA e : e.Component.Name \in DOMAIN has)
    IN  [i \in DOMAIN there |-> has[there[i].Component.Name]]

\* the target provider's Apply: updates are stored, deletions forgotten
RECURSIVE ProviderApply(_, _)
ProviderApply(has, comps) ==
    IF comps = <<>> THEN has
    ELSE LET e == Head(comps)
             n == e.Component.Name
         IN  ProviderApply(
                 IF e.Action = "delete"
                 THEN [x \in (DOMAIN has) \ {n} |-> has[x]]
                 ELSE [x \in (DOMAIN has) \cup {n} |->
                          IF x = n THEN e.Component ELSE has[x]],
                 Tail(comps))

RECURSIVE AddRoles(_, _, _)
\* lines 542-548
AddRoles(tc, components, target) ==
    IF components = <<>> THEN tc
    ELSE AddRoles(MapPut(tc, Key(Head(components).Name, target), RoleOf(Head(components))),
                  Tail(components), target)

\* every observed component is appended, also one whose name is there already
AddComponentsAll(retComponents, components) == retComponents \o components

RECURSIVE AddComponents(_, _)
\* lines 549-558
AddComponents(retComponents, components) ==
    IF components = <<>> THEN retComponents
    ELSE LET c == Head(components)
         IN  AddComponents(
                 IF \E i \in DOMAIN retComponents : retComponents[i].Name = c.Name
                 THEN retComponents ELSE Append(retComponents, c),
                 Tail(components))

RECURSIVE GetLoop(_, _, _, _, _, _)
\* lines 510-560; fault is the failure ("create", "get" or none) of the provider
\* of the first step that is not filtered out
GetLoop(steps, cfg, targetName, has, fault, acc) ==
    IF steps = <<>> THEN acc
    ELSE IF Filtered(cfg, targetName, Head(steps))
    THEN GetLoop(Tail(steps), cfg, targetName, has, fault, acc)
    ELSE IF fault = "create"
    THEN [acc EXCEPT !.err = fault, !.components = <<>>]
    ELSE IF fault = "get"
    THEN [acc EXCEPT !.err = fault, !.components = <<>>,
                     !.observed = @ \cup {Head(steps).Target}]
    ELSE With(ProviderGet(has[Head(steps).Target], Head(steps).Components),
              LAMBDA components :
         With([err |-> "",
               observed |-> acc.observed \cup {Head(steps).Target},
               state |-> [acc.state EXCEPT !.TargetComponent =
                             AddRoles(@, components, Head(steps).Target)],
               components |-> AddComponents(acc.components, components)],
              LAMBDA next :
             GetLoop(Tail(steps), cfg, targetName, has, fault, next)))

\* SolutionManager.Get, lines 486-563: [err, state, components], and the targets
\* whose provider's Get was called
Get(cfg, deployment, targetName, has, fault) ==
    With(NewDeploymentState(deployment), LAMBDA state :
    With(PlanForDeployment(deployment, state), LAMBDA plan :
        IF plan.err # ""
        THEN [err |-> plan.err, observed |-> {}, state |-> EmptyState,
              components |-> <<>>]
        ELSE GetLoop(plan.Steps, cfg, targetName, has, fault,
                     [err |-> "", observed |-> {},
                      state |-> [state EXCEPT !.TargetComponent = EmptyMap],
                      components |-> <<>>])))

\* getPreviousState, lines 119-136: <<the stored state>>, <<>> when there is none
getPreviousState(data, instance) ==
    IF instance \in DOMAIN data THEN <<data[instance].Body>> ELSE <<>>

SummaryKey(instance) == "summary-" \o instance

\* what the store's Upsert does to the data: nothing when the store fails
UpsertOutcomes(e) == IF e.faultyStore THEN {"ok", "fail"} ELSE {"ok"}

StoreWriteDropped(data, id, body, outcome) == data

\* the write with the lines that Reconcile has commented out (lines 387-395):
\* a deployment state without assignments deletes the entry
StoreWriteOrDelete(data, id, body, outcome) ==
    IF outcome # "ok" THEN data
    ELSE IF "State" \in DOMAIN body /\ DOMAIN body.State.TargetComponent = {}
    THEN StoreDelete(data, id)
    ELSE Upsert(data, StateEntry(id, body, ""), FALSE).data

StoreWrite(data, id, body, outcome) ==
    IF outcome = "ok" THEN Upsert(data, StateEntry(id, body, ""), FALSE).data ELSE data

\* GetSummary, lines 137-169: [err, result]
GetSummary(data, key) ==
    With(StoreGet(data, SummaryKey(key)), LAMBDA state :
        IF state.found THEN [err |-> "", result |-> state.entry.Body]
        ELSE [err |-> "NotFound", result |-> EmptyMap])

\* saveSummary with the generation left out
saveSummaryNoGeneration(data, deployment, summary, outcome) ==
    StoreWrite(data, SummaryKey(deployment.Instance),
               [Summary |-> summary, Generation |-> ""], outcome)

\* saveSummary, lines 440-455
saveSummaryNever(data, deployment, summary, outcome) == data
saveSummary(data, deployment, summary, outcome) ==
    StoreWrite(data, SummaryKey(deployment.Instance),
               [Summary |-> summary, Generation |-> deployment.Generation], outcome)

\* lines 212-217
NewSummary(deployment) ==
    [TargetResults |-> EmptyMap, TargetCount |-> Cardinality(deployment.Targets),
     SuccessCount |-> 0, AllAssignedDeployed |-> FALSE, Skipped |-> FALSE,
     IsRemoval |-> FALSE, SummaryMessage |-> ""]

\* SummarySpec.UpdateTargetResult: the result of the target is recorded
UpdateTargetResult(summary, target, status, message) ==
    [summary EXCEPT !.TargetResults =
        MapPut(@, target, [Status |-> status, Message |-> message])]

RECURSIVE SumOf(_)
\* lines 372-375 and 417-420
SumOf(targetResult) ==
    IF DOMAIN targetResult = {} THEN 0
    ELSE LET t == CHOOSE x \in DOMAIN targetResult : TRUE
         IN  targetResult[t] + SumOf([x \in (DOMAIN targetResult) \ {t} |-> targetResult[x]])

(***************************************************************************)
(* SolutionManager.Reconcile                                               *)
(***************************************************************************)
NoDeployment ==
    [Instance |-> "", Generation |-> "", Components |-> <<>>, Targets |-> {},
     Assignments |-> EmptyMap, TargetComponents |-> EmptyMap, Metadata |-> EmptyMap]

NoArgs == [deployment |-> NoDeployment, remove |-> FALSE, targetName |-> ""]

NoAfter == [ok |-> FALSE, plan |-> <<>>, state |-> <<>>]

\* a caller outside Reconcile
IdleCall ==
    [pc |-> "idle", n |-> 0, args |-> NoArgs, deployment |-> NoDeployment,
     summary |-> NewSummary(NoDeployment), err |-> "", prev |-> <<>>,
     currentState |-> EmptyState, mergedState |-> EmptyState, plan |-> <<>>,
     idx |-> 0, targetResult |-> EmptyMap, plannedCount |-> 0,
     planSuccessCount |-> 0, someStepsRan |-> FALSE,
     col |-> EmptyMap, passed |-> <<>>, evalFailed |-> FALSE,
     cancelled |-> FALSE, late |-> {},
     observed |-> {}, resolved |-> {}, applied |-> {}, failedApply |-> "", storeFailed |-> FALSE, after |-> NoAfter]

\* no Reconcile has returned, or the last one returned an error
NoLast == [ok |-> FALSE, args |-> NoArgs, plan |-> <<>>]

InBody(r) == r.pc \in {"begin", "steps", "exit"}

\* api_utils.EvaluateDeployment: the deployment with its expressions evaluated
EvaluateDeployment(deployment) == deployment

\* the early returns of lines 228-272 without the assignment of SummaryMessage
ExitWithoutMessage(r, data, message, err, outcome) ==
    [r |-> [r EXCEPT !.pc = "exit", !.err = err, !.storeFailed = @ \/ outcome = "fail"],
     data |-> saveSummary(data, r.deployment, r.summary, outcome)]

\* the early returns of lines 228-272: the summary with its message is saved
ExitWith(r, data, message, err, outcome) ==
    LET summary == [r.summary EXCEPT !.SummaryMessage = message \o err]
    IN  [r |-> [r EXCEPT !.pc = "exit", !.summary = summary, !.err = err,
                         !.storeFailed = @ \/ outcome = "fail"],
         data |-> saveSummary(data, r.deployment, summary, outcome)]

\* api_utils.MergeCollection, line 274: the metadata of the solution and of the
\* instance in one map
MergeCollection(deployment) == deployment.Metadata

\* deployment.Targets[target], line 295: the components of the target's spec,
\* none for a target that the deployment does not have
TargetState(deployment, target) ==
    IF target \in DOMAIN deployment.TargetComponents
    THEN deployment.TargetComponents[target] ELSE <<>>

\* strings.Contains
Contains(text, sub) == Index(text, sub) >= 0

findAgentNone(components) == ""

RECURSIVE findAgent(_)
\* findAgent, lines 604-613
findAgent(components) ==
    IF components = <<>> THEN ""
    ELSE IF /\ ContainerImage \in DOMAIN Head(components).Properties
            /\ Contains(Head(components).Properties[ContainerImage], <<SYMPHONY_AGENT>>)
    THEN Head(components).Name
    ELSE findAgent(Tail(components))

\* lines 294-300: the agent's address is put into the metadata or taken out
WithAgent(col, agent) ==
    IF agent # "" THEN MapPut(col, ENV_NAME, agent)
    ELSE [x \in (DOMAIN col) \ {ENV_NAME} |-> col[x]]

\* lines 255-272 of Reconcile: merge and plan
ReconcilePlan(r, data, previousDesiredState, got, outcome) ==
    With(NewDeploymentState(r.deployment), LAMBDA currentDesiredState :
    With(IF previousDesiredState # <<>>
         THEN MergeDeploymentStates(previousDesiredState[1].State, currentDesiredState)
         ELSE currentDesiredState,
         LAMBDA desired :
    With(IF r.args.remove THEN MarkRemoveAll(desired) ELSE desired,
         LAMBDA desiredState :
    With(MergeDeploymentStates(got.state, desiredState), LAMBDA mergedState :
    With(PlanForDeployment(r.deployment, mergedState), LAMBDA plan :
        IF plan.err # ""
        THEN ExitWith(r, data, "failed to plan for deployment: ", plan.err, outcome)
        ELSE [r |-> [r EXCEPT !.pc = "steps", !.prev = previousDesiredState,
                              !.currentState = got.state,
                              !.mergedState = mergedState,
                              !.plan = plan.Steps, !.idx = 1,
                              !.col = MergeCollection(r.deployment)],
              data |-> data])))))

\* lines 204-272 of Reconcile: evaluate, read the previous state, observe, merge, plan
ReconcileBegin(r0, cfg, data, has, fault, outcome) ==
    With([r0 EXCEPT !.deployment = EvaluateDeployment(r0.args.deployment),
                    !.summary = NewSummary(r0.args.deployment),
                    !.evalFailed = fault = "eval"],
         LAMBDA r :
        IF fault = "eval" /\ ~r.args.remove
        THEN ExitWith(r, data, "failed to evaluate deployment spec: ", "eval", outcome)
        ELSE With(Get(cfg, r.deployment, r.args.targetName, has, fault), LAMBDA got :
             With([r EXCEPT !.observed = got.observed], LAMBDA r1 :
             IF got.err # ""
             THEN ExitWith(r1, data, "failed to get current state: ", got.err, outcome)
             ELSE ReconcilePlan(r1, data, getPreviousState(data, r.deployment.Instance),
                                got, outcome))))

\* lines 319-326: the step needs no Apply
Skippable(r, step) ==
    /\ r.prev # <<>>
    /\ canSkipStep(step, step.Target, r.prev[1].State.Components,
                   MergeDeploymentStates(r.prev[1].State, r.currentState))

\* lines 283-383: one iteration of the loop over the plan's steps
ReconcileStep(r, cfg, data, has, fault, outcome) ==
    LET step    == r.plan[r.idx]
        t       == step.Target
        col     == WithAgent(r.col, findAgent(TargetState(r.deployment, t)))
        counted == [r EXCEPT !.plannedCount = @ + 1, !.resolved = @ \cup {t},
                             !.col = col]
        passed  == Append(r.passed, [Target |-> t, Metadata |-> col])
        late    == IF r.cancelled THEN {t} ELSE {}
    IN  IF Filtered(cfg, r.args.targetName, step)
        THEN [r |-> [r EXCEPT !.idx = @ + 1], data |-> data, has |-> has]
        ELSE IF fault = "create"
        THEN ExitWith(counted, data, "failed to create provider:", "create", outcome)
             @@ [has |-> has]
        ELSE IF Skippable(r, step)
        THEN [r |-> [counted EXCEPT !.targetResult = MapPut(@, t, 1),
                                    !.planSuccessCount = @ + 1, !.idx = @ + 1],
              data |-> data, has |-> has]
        ELSE IF fault = "apply"
        THEN LET targetResult == MapPut(r.targetResult, t, 0)
                 summary == [UpdateTargetResult(r.summary, t, "Error", "apply")
                                EXCEPT !.SuccessCount = SumOf(targetResult),
                                       !.AllAssignedDeployed =
                                           counted.plannedCount = r.planSuccessCount]
             IN  [r |-> [counted EXCEPT !.pc = "exit", !.someStepsRan = TRUE,
                                        !.applied = @ \cup {t}, !.failedApply = t,
                                        !.passed = passed,
                                        !.late = @ \cup late,
                                        !.targetResult = targetResult,
                                        !.summary = summary, !.err = "apply",
                                        !.storeFailed = @ \/ outcome = "fail"],
                  data |-> saveSummary(data, r.deployment, summary, outcome),
                  has |-> has]
        ELSE LET summary == [UpdateTargetResult(r.summary, t, "OK", "")
                                EXCEPT !.AllAssignedDeployed =
                                           counted.plannedCount = r.planSuccessCount]
             IN  [r |-> [counted EXCEPT !.someStepsRan = TRUE,
                                        !.applied = @ \cup {t},
                                        !.passed = passed,
                                        !.late = @ \cup late,
                                        !.targetResult = MapPut(@, t, 1),
                                        !.summary = summary,
                                        !.planSuccessCount = @ + 1, !.idx = @ + 1],
                  data |-> data,
                  has |-> [has EXCEPT ![t] = ProviderApply(@, step.Components)]]

\* lines 385-425: the state and the summary are written, Reconcile succeeds
ReconcileFinish(r, data, outState, outSummary) ==
    LET mergedState == ClearAllRemoved(r.mergedState)
        data1 == StoreWrite(data, r.deployment.Instance,
                            [Spec |-> r.deployment, State |-> mergedState], outState)
        s1 == [r.summary EXCEPT !.Skipped = ~r.someStepsRan]
        s2 == IF s1.Skipped THEN [s1 EXCEPT !.SuccessCount = s1.TargetCount] ELSE s1
        s3 == [s2 EXCEPT !.IsRemoval = r.args.remove]
        summary == [s3 EXCEPT !.SuccessCount = SumOf(r.targetResult),
                              !.AllAssignedDeployed =
                                  r.plannedCount = r.planSuccessCount]
    IN  [r |-> [r EXCEPT !.pc = "exit", !.mergedState = mergedState,
                         !.summary = summary, !.err = "",
                         !.storeFailed = @ \/ outState = "fail" \/ outSummary = "fail"],
         data |-> saveSummary(data1, r.deployment, summary, outSummary)]

\* lock.Lock(), line 197: the caller passes when no one holds the lock
LockPassesAlways(holder) == TRUE
LockPasses(holder) == holder = ""

\* sendHeartbeat's task for call n, lines 171-179
NewHeartbeat(n, id, remove) ==
    [n |-> n, JobId |-> id, Action |-> IF remove THEN "Delete" ELSE "Update",
     stop |-> FALSE, tick |-> FALSE]

\* the deferred close(stopCh), line 201
CloseStopChNever(tasks, n) == tasks
CloseStopCh(tasks, n) ==
    {IF h.n = n THEN [h EXCEPT !.stop = TRUE] ELSE h : h \in tasks}

\* the deferred lock.Unlock(), line 198
Unlock(holder, c) == ""

\* a manager of every target, and one that manages target T2 only
ManagerConfigs ==
    {[IsTarget |-> FALSE, TargetNames |-> {}],
     [IsTarget |-> TRUE, TargetNames |-> {"T2"}]}

\* the manager while only other components run
NoManager == [IsTarget |-> FALSE, TargetNames |-> {}]

(***************************************************************************)
(* SolutionManager.Init                                                    *)
(***************************************************************************)
\* a text is a sequence of pieces, each a comma or a piece without a comma
MaxPieces == 2

Pieces == {"T1", "T2", ","}

RECURSIVE TextsOf(_)
TextsOf(n) ==
    IF n = 0 THEN {<<>>}
    ELSE TextsOf(n - 1) \cup {Append(t, p) : t \in TextsOf(n - 1), p \in Pieces}

ConfigTexts == TextsOf(MaxPieces)

\* the string that a text spells
RECURSIVE Str(_)
Str(t) == IF t = <<>> THEN "" ELSE Head(t) \o Str(Tail(t))

\* strings.Split(text, ","): the parts between the commas; one empty part for
\* the empty text
RECURSIVE SplitFrom(_, _)
SplitFrom(text, part) ==
    IF text = <<>> THEN <<Str(part)>>
    ELSE IF Head(text) = ","
    THEN <<Str(part)>> \o SplitFrom(Tail(text), <<>>)
    ELSE SplitFrom(Tail(text), Append(part, Head(text)))

Split(text) == SplitFrom(text, <<>>)

\* strconv.ParseBool
ParseBoolTrue == {"1", "t", "T", "TRUE", "true", "True"}

ParseBoolFalse == {"0", "f", "F", "FALSE", "false", "False"}

ParseBool(str) == [b |-> str \in ParseBoolTrue,
                   ok |-> str \in ParseBoolTrue \cup ParseBoolFalse]

\* the values of the isTarget property that the model tries
BoolTexts == {"true", "1", "false", "yes"}

\* config.Properties: <<>> for a property that is absent, <<v>> for value v
PropertySets ==
    [isTarget : {<<>>} \cup {<<b>> : b \in BoolTexts},
     targetNames : {<<>>} \cup {<<t>> : t \in ConfigTexts}]

\* the values of SYMPHONY_TARGET_NAME, empty when it is not set
EnvNames == {<<>>, <<"T1">>, <<"T1", ",", "T2">>}

TargetNameError == "target mode is set but target name is not set"

\* lines 93-98
IsTargetOf(props) ==
    IF props.isTarget = <<>> THEN FALSE
    ELSE With(ParseBool(props.isTarget[1]), LAMBDA r : (r.ok \/ r.b) /\ r.b)

\* lines 100-102
TargetNamesOf(props) ==
    IF props.targetNames = <<>> THEN <<>> ELSE Split(props.targetNames[1])

\* lines 104-111: the names after the fallback to the environment, which
\* applies in target mode to an empty list
WithEnvFallback(isTarget, names, envName) ==
    IF isTarget /\ Len(names) = 0 /\ envName # <<>> THEN Split(envName) ELSE names

\* lines 112-114
InitError(isTarget, names) ==
    IF isTarget /\ Len(names) = 0 THEN TargetNameError ELSE ""

NoManagerInit == [on |-> FALSE, props |-> [isTarget |-> <<>>, targetNames |-> <<>>],
                  envName |-> <<>>, providers |-> TRUE, err |-> "", names |-> <<>>]

ManagerInitInit ==
    /\ mgrCfg = NoManager
    /\ mgrInit \in [on : {FALSE}, props : PropertySets, envName : EnvNames,
                     providers : BOOLEAN, err : {""}, names : {<<>>}]

\* SolutionManager.Init, lines 59-116: a provider that is missing or of the
\* wrong kind fails it before the properties are read
ManagerInit ==
    /\ ~mgrInit.on
    /\ IF ~mgrInit.providers
       THEN /\ mgrInit' = [mgrInit EXCEPT !.on = TRUE, !.err = "provider"]
            /\ UNCHANGED mgrCfg
       ELSE \E isTarget \in {IsTargetOf(mgrInit.props)} :
            \E names \in {WithEnvFallback(isTarget, TargetNamesOf(mgrInit.props),
                                           mgrInit.envName)} :
               /\ mgrInit' = [mgrInit EXCEPT !.on = TRUE, !.names = names,
                                             !.err = InitError(isTarget, names)]
               /\ mgrCfg' = [IsTarget |-> isTarget,
                             TargetNames |-> {names[i] : i \in DOMAIN names}]
    /\ UNCHANGED otherThanInit

ManagerInitNext == ManagerInit

\* one client at a time, the in-memory store
EnvSequential ==
    [clients |-> {"r1"}, catalogue |-> Deployments, targetNames |-> TargetNameArgs,
     faultyStore |-> FALSE, calls |-> MaxCalls, requests |-> MaxRequests]

\* one client at a time, a store whose writes can fail
EnvFaultyStore ==
    [clients |-> {"r1"}, catalogue |-> Deployments, targetNames |-> TargetNameArgs,
     faultyStore |-> TRUE, calls |-> MaxCalls, requests |-> MaxRequests]

\* clients that call at the same time, for two instances
EnvConcurrent ==
    [clients |-> Callers, catalogue |-> {DepShrunk, DepCycle},
     targetNames |-> {""}, faultyStore |-> FALSE, calls |-> MaxCalls, requests |-> MaxRequests]

\* one client that deploys an instance, shrinks it and removes it, in twice as
\* many calls
EnvRemoval ==
    [clients |-> {"r1"}, catalogue |-> {DepBase("1", 1), DepShrunk},
     targetNames |-> TargetNameArgs, faultyStore |-> FALSE, calls |-> 2 * MaxCalls,
     requests |-> MaxRequests]

\* the MQTT provider's Init called again and again, around one request less
EnvDriverInit ==
    [clients |-> {"r1"}, catalogue |-> Deployments, targetNames |-> TargetNameArgs,
     faultyStore |-> FALSE, calls |-> MaxCalls, requests |-> MaxRequests - 1]

\* the numbers of the Reconcile calls
CallNumbers == 1 .. (2 * MaxCalls)

MgrInit ==
    /\ lockHolder = ""
    /\ rc = [c \in Callers |-> IdleCall]
    /\ ncalls = 0
    /\ deployed = [t \in AllTargets |-> EmptyMap]
    /\ hbs = {}
    /\ published = {}
    /\ nticks = 0
    /\ last = NoLast

\* a caller enters Reconcile and waits for the lock
Call(c) ==
    /\ c \in env.clients
    /\ rc[c].pc = "idle"
    /\ ncalls < env.calls
    /\ ncalls' = ncalls + 1
    /\ rc' = [rc EXCEPT ![c] = [IdleCall EXCEPT !.pc = "lock", !.n = ncalls + 1]]
    /\ UNCHANGED <<mgrCfg, env, lockHolder, deployed, hbs, published, last, Data>>
    /\ UNCHANGED <<nticks>>
    /\ UNCHANGED otherThanMgr

\* lines 197-202: the lock is taken, the heartbeat task started
Acquire(c) ==
    /\ rc[c].pc = "lock"
    /\ LockPasses(lockHolder)
    /\ \E deployment \in env.catalogue, remove \in BOOLEAN, targetName \in env.targetNames :
         LET args == [deployment |-> deployment, remove |-> remove,
                      targetName |-> targetName]
         IN  /\ rc' = [rc EXCEPT ![c] =
                          [@ EXCEPT !.pc = "begin", !.args = args,
                                    !.after = [ok |-> last.ok /\ last.args = args,
                                               plan |-> last.plan,
                                               state |-> getPreviousState(
                                                   Data, deployment.Instance)]]]
             /\ hbs' = hbs \cup {NewHeartbeat(rc[c].n, deployment.Instance, remove)}
    /\ lockHolder' = c
    /\ UNCHANGED <<mgrCfg, env, ncalls, deployed, published, last, Data>>
    /\ UNCHANGED <<nticks>>
    /\ UNCHANGED otherThanMgr

Begin(c) ==
    /\ rc[c].pc = "begin"
    /\ \E fault \in {"none", "eval", "create", "get"}, outcome \in UpsertOutcomes(env) :
         \E res \in {ReconcileBegin(rc[c], mgrCfg, Data, deployed, fault, outcome)} :
             /\ rc' = [rc EXCEPT ![c] = res.r]
             /\ Data' = res.data
    /\ UNCHANGED <<mgrCfg, env, lockHolder, ncalls, deployed, hbs, published, last>>
    /\ UNCHANGED <<nticks>>
    /\ UNCHANGED otherThanMgr

Step(c) ==
    /\ rc[c].pc = "steps"
    /\ rc[c].idx <= Len(rc[c].plan)
    /\ \E fault \in {"none", "create", "apply"}, outcome \in UpsertOutcomes(env) :
         \E res \in {ReconcileStep(rc[c], mgrCfg, Data, deployed, fault, outcome)} :
             /\ rc' = [rc EXCEPT ![c] = res.r]
             /\ Data' = res.data
             /\ deployed' = res.has
    /\ UNCHANGED <<mgrCfg, env, lockHolder, ncalls, hbs, published, last>>
    /\ UNCHANGED <<nticks>>
    /\ UNCHANGED otherThanMgr

Finish(c) ==
    /\ rc[c].pc = "steps"
    /\ rc[c].idx > Len(rc[c].plan)
    /\ \E outState \in UpsertOutcomes(env), outSummary \in UpsertOutcomes(env) :
         \E res \in {ReconcileFinish(rc[c], Data, outState, outSummary)} :
             /\ rc' = [rc EXCEPT ![c] = res.r]
             /\ Data' = res.data
    /\ UNCHANGED <<mgrCfg, env, lockHolder, ncalls, deployed, hbs, published, last>>
    /\ UNCHANGED <<nticks>>
    /\ UNCHANGED otherThanMgr

\* Reconcile returns: the deferred close(stopCh) and lock.Unlock() run
Return(c) ==
    /\ rc[c].pc = "exit"
    /\ hbs' = CloseStopCh(hbs, rc[c].n)
    /\ lockHolder' = Unlock(lockHolder, c)
    /\ last' = IF rc[c].err = ""
               THEN [ok |-> TRUE, args |-> rc[c].args, plan |-> rc[c].plan]
               ELSE NoLast
    /\ rc' = [rc EXCEPT ![c] = IdleCall]
    /\ UNCHANGED <<mgrCfg, env, ncalls, deployed, published, Data>>
    /\ UNCHANGED <<nticks>>
    /\ UNCHANGED otherThanMgr

\* the caller cancels the context that it gave to Reconcile; neither Reconcile
\* (lines 196-426) nor the provider's Apply (MQTT, lines 357-392) reads ctx.Done()
\* or ctx.Err(): the context is only handed on
Cancel(c) ==
    /\ InBody(rc[c])
    /\ ~rc[c].cancelled
    /\ rc' = [rc EXCEPT ![c] = [@ EXCEPT !.cancelled = TRUE]]
    /\ UNCHANGED <<mgrCfg, env, lockHolder, ncalls, deployed, hbs, published, last, Data>>
    /\ UNCHANGED <<nticks>>
    /\ UNCHANGED otherThanMgr

\* the 30 s ticker fires, line 172; a tick not yet taken is not queued twice
Tick ==
    /\ nticks < MaxTicks
    /\ nticks' = nticks + 1
    /\ \E h \in hbs :
         /\ ~h.tick
         /\ hbs' = (hbs \ {h}) \cup {[h EXCEPT !.tick = TRUE]}
    /\ UNCHANGED <<mgrCfg, env, lockHolder, rc, ncalls, deployed, published, last, Data>>
    /\ UNCHANGED otherThanMgr

\* lines 182-189: the select takes the tick and publishes the heartbeat
HeartbeatPublish ==
    /\ \E h \in hbs :
         /\ h.tick
         /\ hbs' = (hbs \ {h}) \cup {[h EXCEPT !.tick = FALSE]}
         /\ published' = published \cup
                {[JobId |-> h.JobId, Action |-> h.Action, n |-> h.n,
                  afterStop |-> h.stop]}
    /\ UNCHANGED <<mgrCfg, env, lockHolder, rc, ncalls, deployed, last, Data>>
    /\ UNCHANGED <<nticks>>
    /\ UNCHANGED otherThanMgr

\* lines 190-191: the select takes the closed stop channel, the task of call n returns
HeartbeatExitOf(n) ==
    /\ \E h \in hbs :
         /\ h.n = n
         /\ h.stop
         /\ hbs' = hbs \ {h}
    /\ UNCHANGED <<mgrCfg, env, lockHolder, rc, ncalls, deployed, published, last, Data>>
    /\ UNCHANGED <<nticks>>
    /\ UNCHANGED otherThanMgr

HeartbeatExit == \E n \in CallNumbers : HeartbeatExitOf(n)

\* Reconcile calls that return before the heartbeat's ticker fires
NextReconcile ==
    \/ \E c \in Callers : Call(c)
    \/ \E c \in Callers : Acquire(c)
    \/ \E c \in Callers : Begin(c)
    \/ \E c \in Callers : Step(c)
    \/ \E c \in Callers : Finish(c)
    \/ \E c \in Callers : Return(c)
    \/ HeartbeatExit

\* Reconcile calls whose caller may cancel the context
NextCancel ==
    \/ \E c \in Callers : Call(c)
    \/ \E c \in Callers : Acquire(c)
    \/ \E c \in Callers : Begin(c)
    \/ \E c \in Callers : Step(c)
    \/ \E c \in Callers : Finish(c)
    \/ \E c \in Callers : Return(c)
    \/ \E c \in Callers : Cancel(c)
    \/ HeartbeatExit

Next ==
    \/ \E c \in Callers : Call(c)
    \/ \E c \in Callers : Acquire(c)
    \/ \E c \in Callers : Begin(c)
    \/ \E c \in Callers : Step(c)
    \/ \E c \in Callers : Finish(c)
    \/ \E c \in Callers : Return(c)
    \/ Tick
    \/ HeartbeatPublish
    \/ HeartbeatExit

(***************************************************************************)
(* SolutionManager.Get, called on its own                                  *)
(***************************************************************************)
\* what the provider of a target can hold: nothing, A, B in one of two
\* versions, or both
HasMaps ==
    {EmptyMap,
     [x \in {"A"} |-> Comp("A", "", 1, <<>>)],
     [x \in {"B"} |-> Comp("B", "helm", 1, <<"A">>)],
     [x \in {"B"} |-> Comp("B", "helm", 2, <<"A">>)],
     [x \in {"A", "B"} |-> IF x = "A" THEN Comp("A", "", 1, <<>>)
                            ELSE Comp("B", "helm", 1, <<"A">>)]}

GetInputs ==
    [cfg : ManagerConfigs, deployment : Deployments, targetName : TargetNameArgs,
     has : [AllTargets -> HasMaps], fault : {"none", "create", "get"}]

NoGetInput ==
    [cfg |-> NoManager, deployment |-> NoDeployment, targetName |-> "",
     has |-> [t \in AllTargets |-> EmptyMap], fault |-> "none"]

GetInit ==
    /\ getIn \in GetInputs
    /\ getOut = <<>>

\* one call of SolutionManager.Get, lines 486-563: it calls the providers' Get
\* and nothing else
GetCall ==
    /\ getOut = <<>>
    /\ getOut' = <<Get(getIn.cfg, getIn.deployment, getIn.targetName, getIn.has,
                       getIn.fault)>>
    /\ UNCHANGED getIn
    /\ UNCHANGED otherThanGet

GetNext == GetCall

(***************************************************************************)
(* MemoryStateProvider.List                                                *)
(***************************************************************************)
\* a filter is a sequence of characters; a JSON value is a string or an object
MaxFilterLen == 3

FilterChars == {"a", ".", "!", "="}

RECURSIVE FiltersOf(_)
FiltersOf(n) ==
    IF n = 0 THEN {<<>>}
    ELSE FiltersOf(n - 1) \cup {Append(f, ch) : f \in FiltersOf(n - 1), ch \in FilterChars}

JString(x) == [t |-> "s", s |-> x, m |-> EmptyMap]

JObject(f) == [t |-> "m", s |-> "", m |-> f]

\* strings.Split(text, sep) for a separator that is not empty
RECURSIVE SplitByFrom(_, _, _)
SplitByFrom(text, sep, part) ==
    IF text = <<>> THEN <<part>>
    ELSE IF HasPrefix(text, sep)
    THEN <<part>> \o SplitByFrom(SubSeq(text, Len(sep) + 1, Len(text)), sep, <<>>)
    ELSE SplitByFrom(Tail(text), sep, Append(part, Head(text)))

SplitBy(text, sep) == SplitByFrom(text, sep, <<>>)

NotASelector == "BadRequest"

\* traceDownField, lines 131-147: [dict, key, err]; a field that is no object
\* does not unmarshal into a map
RECURSIVE traceDownField(_, _)
traceDownField(entity, filter) ==
    IF Index(filter, <<".">>) < 0
    THEN [dict |-> entity, key |-> Str(filter), err |-> ""]
    ELSE With(Index(filter, <<".">>), LAMBDA dot :
         With(Str(SubSeq(filter, 1, dot)), LAMBDA first :
             IF first \notin DOMAIN entity
             THEN [dict |-> EmptyMap, key |-> Str(filter), err |-> NotASelector]
             ELSE IF entity[first].t # "m"
             THEN [dict |-> EmptyMap, key |-> Str(filter), err |-> "json"]
             ELSE traceDownField(entity[first].m,
                                 SubSeq(filter, dot + 2, Len(filter)))))

\* dict[key] != nil, with dict[key] equal to the string (or not)
FieldEquals(dict, key, value) ==
    key \in DOMAIN dict /\ dict[key].t = "s" /\ dict[key].s = Str(value)

\* the branch of simulateK8sFilter for one separator, lines 150-163 and 165-178
FilterWith(entity, filter, sep, equal) ==
    With(SplitBy(filter, sep), LAMBDA parts :
        IF Len(parts) # 2 THEN [match |-> FALSE, err |-> NotASelector]
        ELSE With(traceDownField(entity, parts[1]), LAMBDA td :
             IF td.err # "" THEN [match |-> FALSE, err |-> td.err]
             ELSE [match |-> /\ td.key \in DOMAIN td.dict
                             /\ FieldEquals(td.dict, td.key, parts[2]) = equal,
                   err |-> ""]))

\* simulateK8sFilter, lines 148-184: [match, err]
simulateK8sFilter(entity, filter) ==
    IF Index(filter, <<"!", "=">>) > 0 THEN FilterWith(entity, filter, <<"!", "=">>, FALSE)
    ELSE IF Index(filter, <<"=">>) > 0 THEN FilterWith(entity, filter, <<"=">>, TRUE)
    ELSE [match |-> FALSE, err |-> NotASelector]

\* utils.JsonPathQuery: [found, err]; a path is a list of names separated by
\* dots, the result is null (found = FALSE) when a name of the path is missing
\* and an error when the text is no path
ValidPath(path) ==
    \A k \in DOMAIN SplitBy(path, <<".">>) :
        /\ SplitBy(path, <<".">>)[k] # <<>>
        /\ \A i \in DOMAIN SplitBy(path, <<".">>)[k] :
              SplitBy(path, <<".">>)[k][i] \notin {"!", "="}

RECURSIVE PathFound(_, _)
PathFound(doc, names) ==
    IF Str(Head(names)) \notin DOMAIN doc THEN FALSE
    ELSE IF Len(names) = 1 THEN TRUE
    ELSE /\ doc[Str(Head(names))].t = "m"
         /\ PathFound(doc[Str(Head(names))].m, Tail(names))

JsonPathQuery(doc, path) ==
    IF ~ValidPath(path) THEN [found |-> FALSE, err |-> "path"]
    ELSE [found |-> PathFound(doc, SplitBy(path, <<".">>)), err |-> ""]

\* lines 209-254 of List for one entry: [match, err]; match tells whether the
\* entry is appended
ListEntry(body, request) ==
    IF request.FilterType = "" \/ request.FilterValue = <<>>
    THEN [match |-> TRUE, err |-> ""]
    ELSE IF request.FilterType = "label"
    THEN IF /\ "metadata" \in DOMAIN body
            /\ body["metadata"].t = "m"
            /\ "labels" \in DOMAIN body["metadata"].m
            /\ body["metadata"].m["labels"].t = "m"
         THEN simulateK8sFilter(body["metadata"].m["labels"].m, request.FilterValue)
         ELSE [match |-> TRUE, err |-> ""]
    ELSE IF request.FilterType = "field"
    THEN simulateK8sFilter(body, request.FilterValue)
    ELSE IF request.FilterType \in {"status", "spec"}
    THEN IF /\ request.FilterType \in DOMAIN body
            /\ body[request.FilterType].t = "m"
         THEN With(JsonPathQuery(body[request.FilterType].m, request.FilterValue),
                   LAMBDA q : [match |-> q.err = "" /\ q.found, err |-> ""])
         ELSE [match |-> TRUE, err |-> ""]
    ELSE [match |-> TRUE, err |-> ""]

\* List, lines 196-264: the loop returns at the first entry that fails, in the
\* order of Go's map iteration: errs are the errors it can return, ids the
\* entries it returns when no entry fails
List(data, request) ==
    [errs |-> {ListEntry(data[id].Body, request).err : id \in DOMAIN data} \ {""},
     ids |-> {id \in DOMAIN data : ListEntry(data[id].Body, request).match}]

\* the bodies of the entries: without metadata, with metadata without labels,
\* with labels, with a status, with a status that is no object, with a spec
ListBodies ==
    {[x \in {"a"} |-> JString("a")],
     [x \in {"status"} |-> JObject([y \in {"a"} |-> JString("a")])],
     [x \in {"status"} |-> JString("a")],
     [x \in {"spec"} |-> JObject([y \in {"a"} |-> JObject([z \in {"a"} |-> JString("a")])])],
     [x \in {"metadata"} |-> JObject([y \in {"a"} |-> JString("a")])],
     [x \in {"metadata"} |->
         JObject([y \in {"labels"} |-> JObject([z \in {"a"} |-> JString("a")])])]}

\* the stores: every id has no entry or an entry with one of the bodies
ListStores ==
    UNION {{[id \in ids |-> StateEntry(id, f[id], "1")] : f \in [ids -> ListBodies]} :
              ids \in SUBSET StoreIds}

ListRequests ==
    [FilterType : {"", "label", "field", "status", "spec"}, FilterValue : FiltersOf(MaxFilterLen)]

NoListRequest == [FilterType |-> "", FilterValue |-> <<>>]

ListInit ==
    /\ Data \in ListStores
    /\ upserts = 0
    /\ lastUpsert = NoUpsert
    /\ returned = [id \in StoreIds |-> <<>>]
    /\ listIn \in ListRequests
    /\ listOut = <<>>

\* one List call
ListCall ==
    /\ listOut = <<>>
    /\ \E res \in {List(Data, listIn)} :
          IF res.errs = {}
          THEN listOut' = <<[err |-> "", ids |-> res.ids]>>
          ELSE \E err \in res.errs : listOut' = <<[err |-> err, ids |-> {}]>>
    /\ UNCHANGED listIn
    /\ UNCHANGED otherThanList

ListNext == ListCall

(***************************************************************************)
(* Reconcile and Poll on a provider that their callers share               *)
(***************************************************************************)
MaxEntries == 3

NoProc == [pc |-> "idle", via |-> "", waits |-> "", err |-> ""]

\* no caller is in Reconcile or Poll
PollIdle ==
    /\ proc = [c \in Callers |-> NoProc]
    /\ nproc = 0

\* a client calls Reconcile, or the manager's Poll calls it (line 583)
Enter(c) ==
    \E via \in {"api", "poll"} :
        /\ proc[c].pc = "idle"
        /\ nproc < MaxEntries
        /\ nproc' = nproc + 1
        /\ proc' = [proc EXCEPT ![c] = [NoProc EXCEPT !.pc = "lock", !.via = via]]
        /\ UNCHANGED lockHolder
        /\ UNCHANGED otherThanPoll

\* lock.Lock(), line 197
TakeLock(c) ==
    /\ proc[c].pc = "lock"
    /\ LockPasses(lockHolder)
    /\ lockHolder' = c
    /\ proc' = [proc EXCEPT ![c].pc = "get"]
    /\ UNCHANGED nproc
    /\ UNCHANGED otherThanPoll

\* the provider's Get called by SolutionManager.Get (line 536), from Reconcile
\* (line 248) or from Poll (line 587): the request is published and the caller
\* waits on GetChan, or Publish fails and Get returns its error
GetPublish(c) ==
    \E publishOK \in BOOLEAN :
        /\ proc[c].pc \in {"get", "pollGet"}
        /\ proc[c].waits = ""
        /\ proc' = [proc EXCEPT ![c] =
                       IF publishOK THEN [@ EXCEPT !.waits = "Get"]
                       ELSE IF @.pc = "get" THEN [@ EXCEPT !.pc = "exit", !.err = "get"]
                       ELSE NoProc]
        /\ UNCHANGED <<nproc, lockHolder>>
        /\ UNCHANGED otherThanPoll

\* the select of the provider's Get returns, with a response or at its timeout
GetReturn(c) ==
    \E ok \in BOOLEAN :
        /\ proc[c].waits = "Get"
        /\ proc' = [proc EXCEPT ![c] =
                       IF @.pc = "pollGet" THEN NoProc
                       ELSE IF ok THEN [@ EXCEPT !.pc = "apply", !.waits = ""]
                       ELSE [@ EXCEPT !.pc = "exit", !.waits = "", !.err = "get"]]
        /\ UNCHANGED <<nproc, lockHolder>>
        /\ UNCHANGED otherThanPoll

\* the step of the plan: skipped (lines 319-326), or the provider's Apply is
\* called (line 360) and the caller waits on ApplyChan
ApplyPublish(c) ==
    \E how \in {"skip", "publish", "publish fails"} :
        /\ proc[c].pc = "apply"
        /\ proc[c].waits = ""
        /\ proc' = [proc EXCEPT ![c] =
                       IF how = "skip" THEN [@ EXCEPT !.pc = "exit"]
                       ELSE IF how = "publish" THEN [@ EXCEPT !.waits = "Apply"]
                       ELSE [@ EXCEPT !.pc = "exit", !.err = "apply"]]
        /\ UNCHANGED <<nproc, lockHolder>>
        /\ UNCHANGED otherThanPoll

\* the select of the provider's Apply returns
ApplyReturn(c) ==
    \E ok \in BOOLEAN :
        /\ proc[c].waits = "Apply"
        /\ proc' = [proc EXCEPT ![c] =
                       [@ EXCEPT !.pc = "exit", !.waits = "",
                                 !.err = IF ok THEN "" ELSE "apply"]]
        /\ UNCHANGED <<nproc, lockHolder>>
        /\ UNCHANGED otherThanPoll

\* Reconcile returns and its deferred lock.Unlock() runs; Poll goes on to
\* s.Get (line 587) when Reconcile returned no error
Leave(c) ==
    /\ proc[c].pc = "exit"
    /\ lockHolder' = Unlock(lockHolder, c)
    /\ proc' = [proc EXCEPT ![c] =
                   IF @.via = "poll" /\ @.err = "" THEN [@ EXCEPT !.pc = "pollGet"]
                   ELSE NoProc]
    /\ UNCHANGED nproc
    /\ UNCHANGED otherThanPoll

PollNext ==
    \E c \in Callers :
        \/ Enter(c)
        \/ TakeLock(c)
        \/ GetPublish(c)
        \/ GetReturn(c)
        \/ ApplyPublish(c)
        \/ ApplyReturn(c)
        \/ Leave(c)

(***************************************************************************)
(* InstanceReconciler.Reconcile                                            *)
(***************************************************************************)
\* time.After(5 * time.Minute) and time.Tick(10 * time.Second), in seconds
TimeoutSeconds == 300

PollPeriodSeconds == 10

\* the counts a summary can carry
MaxCount == 1

\* what api_utils.GetSummary returns to the poll loop
SummaryResults ==
    [err : {"", "error"}, IsRemoval : BOOLEAN, SuccessCount : 0 .. MaxCount,
     TargetCount : 0 .. MaxCount]

\* line 171: the summary confirms the removal
RemovalConfirmed(res) ==
    res.err = "" /\ res.IsRemoval /\ res.SuccessCount = res.TargetCount

\* a timeout channel that never delivers
TimeoutNeverFires(clock) == FALSE

\* the channel of time.After has delivered its value once 5 minutes have passed
TimeoutFired(clock) == clock >= TimeoutSeconds

\* line 118: a summary that is older is not used
SummaryMaxAgeSeconds == 60

\* the generations of an Instance, and the texts a summary carries as Generation
Generations == {1, 2}

GenerationTexts == {"", "abc", "1", "2"}

\* summary.Time: the zero time.Time or a time some seconds ago
ZeroTime == [zero |-> TRUE, ago |-> 0]

SummaryTimes == {[zero |-> FALSE, ago |-> a] : a \in {30, 60, 61}}

\* the zero model.SummaryResult, which api_utils.GetSummary returns with an error
ZeroSummary(err) ==
    [err |-> err, Generation |-> "", Time |-> ZeroTime, SuccessCount |-> 0,
     TargetCount |-> 0]

\* what api_utils.GetSummary returns at line 104
SummaryReads ==
    {ZeroSummary("NotFound"), ZeroSummary("error")}
    \cup [err : {""}, Generation : GenerationTexts, Time : SummaryTimes,
          SuccessCount : 0 .. MaxCount, TargetCount : 0 .. MaxCount]

NoInstance == [pc |-> "none", deleting |-> FALSE, finalizer |-> FALSE, clock |-> 0,
               tick |-> FALSE, confirmed |-> FALSE, looped |-> FALSE, ret |-> "",
               generation |-> 1, status |-> "", stored |-> "", deployed |-> "",
               queued |-> "",
               failed |-> "", seen |-> ZeroSummary("")]

\* an Instance with or without a deletion timestamp and the finalizer
InstanceInit ==
    inst \in [pc : {"start"}, deleting : BOOLEAN, finalizer : BOOLEAN, clock : {0},
              tick : {FALSE}, confirmed : {FALSE}, looped : {FALSE}, ret : {""},
              generation : Generations, status : {""}, stored : {""},
              deployed : {""},
              queued : {""}, failed : {""}, seen : {ZeroSummary("")}]

\* the calls of Reconcile that can fail
InstanceFaults ==
    {"", "get", "status", "update", "queue", "setstatus", "queue, setstatus"}

\* the call fails
Fails(fault, name) ==
    fault = name \/ (fault = "queue, setstatus" /\ name \in {"queue", "setstatus"})

\* the returns `return ctrl.Result{}, err`; failed names the call whose error
\* is returned
ReturnError(i, cause) == [i EXCEPT !.pc = "done", !.ret = "error", !.failed = cause]

\* updateInstanceStatusToReconciling, lines 195-209, and the return of its
\* caller: the caller returns the error of the status update when that fails,
\* and its own error (if it has one) otherwise
ToReconciling(i, fault, cause) ==
    With([i EXCEPT !.status = "Reconciling", !.deployed = "pending"], LAMBDA j :
        IF Fails(fault, "setstatus") THEN ReturnError(j, "setstatus")
        ELSE IF cause # "" THEN ReturnError([j EXCEPT !.stored = j.status], cause)
        ELSE [j EXCEPT !.pc = "done", !.ret = "requeue", !.stored = j.status])

\* updateInstanceStatus, lines 210-245, and the return at lines 120-123
FromSummary(i, fault, summary) ==
    With([i EXCEPT !.status = IF summary.SuccessCount = summary.TargetCount
                               THEN "Succeeded" ELSE "Failed",
                   !.deployed = FormatInt(summary.SuccessCount)],
         LAMBDA j :
        IF Fails(fault, "setstatus") THEN ReturnError(j, "setstatus")
        ELSE [j EXCEPT !.pc = "done", !.ret = "requeue", !.stored = j.status])

\* lines 113-116: a Generation that does not parse leaves the match at true
GenerationMatchAlways(summary, generation) == TRUE

GenerationMatch(summary, generation) ==
    IF ParseOk(summary.Generation) THEN ParseInt(summary.Generation) = generation
    ELSE TRUE

\* time.Since(summary.Time) <= 60 s, line 118
Recent(time) == ~time.zero /\ time.ago <= SummaryMaxAgeSeconds

\* api_utils.QueueJob: the job is queued unless the call fails
QueueJob(i, fault, action) ==
    IF Fails(fault, "queue") THEN i ELSE [i EXCEPT !.queued = action]

\* the update path from the summary on, lines 104-149
UpdatePath(i0, fault, read) ==
    With([i0 EXCEPT !.seen = read], LAMBDA i :
        IF read.err # "" /\ read.err # "NotFound"
        THEN ToReconciling(i, fault, "summary")
        ELSE IF GenerationMatch(read, i.generation) /\ Recent(read.Time)
        THEN FromSummary(i, fault, read)
        ELSE IF Fails(fault, "queue")
        THEN ToReconciling(QueueJob(i, fault, "update"), fault, "queue")
        ELSE IF ~GenerationMatch(read, i.generation)
        THEN ToReconciling(QueueJob(i, fault, "update"), fault, "")
        ELSE [QueueJob(i, fault, "update") EXCEPT !.pc = "done", !.ret = "requeue"])

\* the remove path without the test of QueueJob's error
RemovePathUnchecked(i, fault) ==
    IF ~i.finalizer THEN [i EXCEPT !.pc = "done", !.ret = "nil"]
    ELSE [QueueJob(i, fault, "remove") EXCEPT !.pc = "loop"]

\* the remove path up to the poll loop, lines 151-164
RemovePath(i, fault) ==
    IF ~i.finalizer THEN [i EXCEPT !.pc = "done", !.ret = "nil"]
    ELSE IF Fails(fault, "queue")
    THEN ToReconciling(QueueJob(i, fault, "remove"), fault, "queue")
    ELSE [QueueJob(i, fault, "remove") EXCEPT !.pc = "loop"]

\* Reconcile up to the poll loop, lines 73-164; fault names the call that fails
InstanceStart ==
    \E fault \in InstanceFaults, read \in SummaryReads :
        /\ inst.pc = "start"
        /\ IF fault \in {"get", "status"}
           THEN inst' = ReturnError(inst, fault)
           ELSE IF inst.deleting
           THEN inst' = RemovePath(inst, fault)
           ELSE IF ~inst.finalizer /\ fault = "update"
           THEN inst' = ReturnError([inst EXCEPT !.finalizer = TRUE], "update")
           ELSE inst' = UpdatePath([inst EXCEPT !.finalizer = TRUE], fault, read)
        /\ UNCHANGED otherThanK8s

\* ten more seconds pass while the loop runs: the ticker has a tick ready (it
\* drops a tick that nobody took); the clock stops at the 5 minutes
TimePasses ==
    /\ inst.pc = "loop"
    /\ ~(inst.tick /\ inst.clock >= TimeoutSeconds)
    /\ inst' = [inst EXCEPT !.tick = TRUE,
                            !.clock = IF inst.clock >= TimeoutSeconds THEN inst.clock
                                      ELSE inst.clock + PollPeriodSeconds]
    /\ UNCHANGED otherThanK8s

\* case <-ticker, lines 169-173
PollTick ==
    \E res \in SummaryResults :
        /\ inst.pc = "loop"
        /\ inst.tick
        /\ inst' = IF RemovalConfirmed(res)
                   THEN [inst EXCEPT !.tick = FALSE, !.pc = "finalize",
                                     !.confirmed = TRUE]
                   ELSE [inst EXCEPT !.tick = FALSE]
        /\ UNCHANGED otherThanK8s

\* case <-timeout, lines 166-168
PollTimeout ==
    /\ inst.pc = "loop"
    /\ TimeoutFired(inst.clock)
    /\ inst' = [inst EXCEPT !.pc = "finalize"]
    /\ UNCHANGED otherThanK8s

\* lines 179-182: the finalizer is removed and the object updated
Finalize ==
    \E updateOK \in BOOLEAN :
        /\ inst.pc = "finalize"
        /\ inst' = [inst EXCEPT !.pc = "done", !.finalizer = FALSE, !.looped = TRUE,
                                !.ret = IF updateOK THEN "nil" ELSE "error",
                                !.failed = IF updateOK THEN "" ELSE "update"]
        /\ UNCHANGED otherThanK8s

InstanceNext == InstanceStart \/ TimePasses \/ PollTick \/ PollTimeout \/ Finalize

\* time passes, the goroutine runs on, and a select whose timeout channel is
\* ready takes that case in the end (select chooses at random among the cases
\* that are ready)
InstanceFairness ==
    /\ WF_vars(TimePasses)
    /\ WF_vars(PollTimeout)
    /\ WF_vars(Finalize)

(***************************************************************************)
(* Specifications                                                          *)
(***************************************************************************)
Init ==
    /\ StoreInit
    /\ MqttInit
    /\ MgrInit
    /\ mgrCfg \in ManagerConfigs
    /\ env = EnvSequential
    /\ skipIn = NoSkipInput
    /\ skipOut = <<>>
    /\ sortIn = NoSortInput
    /\ sortOut = <<>>
    /\ mgrInit = NoManagerInit
    /\ inst = NoInstance
    /\ PollIdle
    /\ listIn = NoListRequest /\ listOut = <<>>
    /\ getIn = NoGetInput /\ getOut = <<>>

InitFaulty ==
    /\ StoreInit
    /\ MqttInit
    /\ MgrInit
    /\ mgrCfg \in ManagerConfigs
    /\ env = EnvFaultyStore
    /\ skipIn = NoSkipInput
    /\ skipOut = <<>>
    /\ sortIn = NoSortInput
    /\ sortOut = <<>>
    /\ mgrInit = NoManagerInit
    /\ inst = NoInstance
    /\ PollIdle
    /\ listIn = NoListRequest /\ listOut = <<>>
    /\ getIn = NoGetInput /\ getOut = <<>>

InitConcurrent ==
    /\ StoreInit
    /\ MqttInit
    /\ MgrInit
    /\ mgrCfg = NoManager
    /\ env = EnvConcurrent
    /\ skipIn = NoSkipInput
    /\ skipOut = <<>>
    /\ sortIn = NoSortInput
    /\ sortOut = <<>>
    /\ mgrInit = NoManagerInit
    /\ inst = NoInstance
    /\ PollIdle
    /\ listIn = NoListRequest /\ listOut = <<>>
    /\ getIn = NoGetInput /\ getOut = <<>>

\* the store or the MQTT provider alone
InitAlone ==
    /\ StoreInit
    /\ MqttInit
    /\ MgrInit
    /\ mgrCfg = NoManager
    /\ env = EnvSequential
    /\ skipIn = NoSkipInput
    /\ skipOut = <<>>
    /\ sortIn = NoSortInput
    /\ sortOut = <<>>
    /\ mgrInit = NoManagerInit
    /\ inst = NoInstance
    /\ PollIdle
    /\ listIn = NoListRequest /\ listOut = <<>>
    /\ getIn = NoGetInput /\ getOut = <<>>

InitDriver ==
    /\ StoreInit
    /\ MqttInit
    /\ MgrInit
    /\ mgrCfg = NoManager
    /\ env = EnvDriverInit
    /\ skipIn = NoSkipInput
    /\ skipOut = <<>>
    /\ sortIn = NoSortInput
    /\ sortOut = <<>>
    /\ mgrInit = NoManagerInit
    /\ inst = NoInstance
    /\ PollIdle
    /\ listIn = NoListRequest /\ listOut = <<>>
    /\ getIn = NoGetInput /\ getOut = <<>>

InitRemoval ==
    /\ StoreInit
    /\ MqttInit
    /\ MgrInit
    /\ mgrCfg \in ManagerConfigs
    /\ env = EnvRemoval
    /\ skipIn = NoSkipInput
    /\ skipOut = <<>>
    /\ sortIn = NoSortInput
    /\ sortOut = <<>>
    /\ mgrInit = NoManagerInit
    /\ inst = NoInstance
    /\ PollIdle
    /\ listIn = NoListRequest /\ listOut = <<>>
    /\ getIn = NoGetInput /\ getOut = <<>>

InitSkip ==
    /\ StoreInit
    /\ MqttInit
    /\ MgrInit
    /\ mgrCfg = NoManager
    /\ env = EnvSequential
    /\ SkipInit
    /\ sortIn = NoSortInput
    /\ sortOut = <<>>
    /\ mgrInit = NoManagerInit
    /\ inst = NoInstance
    /\ PollIdle
    /\ listIn = NoListRequest /\ listOut = <<>>
    /\ getIn = NoGetInput /\ getOut = <<>>

InitSort ==
    /\ StoreInit
    /\ MqttInit
    /\ MgrInit
    /\ mgrCfg = NoManager
    /\ env = EnvSequential
    /\ skipIn = NoSkipInput
    /\ skipOut = <<>>
    /\ SortInit
    /\ mgrInit = NoManagerInit
    /\ inst = NoInstance
    /\ PollIdle
    /\ listIn = NoListRequest /\ listOut = <<>>
    /\ getIn = NoGetInput /\ getOut = <<>>

InitManager ==
    /\ StoreInit
    /\ MqttInit
    /\ MgrInit
    /\ env = EnvSequential
    /\ skipIn = NoSkipInput
    /\ skipOut = <<>>
    /\ sortIn = NoSortInput
    /\ sortOut = <<>>
    /\ ManagerInitInit
    /\ inst = NoInstance
    /\ PollIdle
    /\ listIn = NoListRequest /\ listOut = <<>>
    /\ getIn = NoGetInput /\ getOut = <<>>

InitInstance ==
    /\ StoreInit
    /\ MqttInit
    /\ MgrInit
    /\ mgrCfg = NoManager
    /\ env = EnvSequential
    /\ skipIn = NoSkipInput
    /\ skipOut = <<>>
    /\ sortIn = NoSortInput
    /\ sortOut = <<>>
    /\ mgrInit = NoManagerInit
    /\ InstanceInit
    /\ PollIdle
    /\ listIn = NoListRequest /\ listOut = <<>>
    /\ getIn = NoGetInput /\ getOut = <<>>

InitList ==
    /\ ListInit
    /\ MqttInit
    /\ MgrInit
    /\ mgrCfg = NoManager
    /\ env = EnvSequential
    /\ skipIn = NoSkipInput
    /\ skipOut = <<>>
    /\ sortIn = NoSortInput
    /\ sortOut = <<>>
    /\ mgrInit = NoManagerInit
    /\ inst = NoInstance
    /\ PollIdle
    /\ getIn = NoGetInput /\ getOut = <<>>

InitGet ==
    /\ StoreInit
    /\ MqttInit
    /\ MgrInit
    /\ mgrCfg = NoManager
    /\ env = EnvSequential
    /\ skipIn = NoSkipInput
    /\ skipOut = <<>>
    /\ sortIn = NoSortInput
    /\ sortOut = <<>>
    /\ mgrInit = NoManagerInit
    /\ inst = NoInstance
    /\ PollIdle
    /\ GetInit
    /\ listIn = NoListRequest /\ listOut = <<>>

\* the goroutine of a call runs on, a closed stop channel is taken, and a
\* caller that waits for the lock gets it (sync.Mutex hands the lock over to a
\* waiter that has waited for more than 1 ms)
Fairness ==
    /\ \A c \in Callers :
          /\ SF_vars(Acquire(c))
          /\ WF_vars(Begin(c))
          /\ WF_vars(Step(c))
          /\ WF_vars(Finish(c))
          /\ WF_vars(Return(c))
    /\ \A n \in 1 .. MaxCalls : WF_vars(HeartbeatExitOf(n))

Spec == Init /\ [][NextReconcile]_vars

SpecFaulty == InitFaulty /\ [][NextReconcile]_vars

SpecRemoval == InitRemoval /\ [][NextReconcile]_vars

SpecConcurrent == InitConcurrent /\ [][Next]_vars

SpecLive == InitConcurrent /\ [][Next]_vars /\ Fairness

SpecStore == InitAlone /\ [][StoreNext]_vars

SpecMqtt == InitAlone /\ [][MqttNext]_vars

SpecMqttInit == InitDriver /\ [][MqttNext]_vars

SpecSkip == InitSkip /\ [][SkipNext]_vars

SpecSort == InitSort /\ [][SortNext]_vars

SpecManagerInit == InitManager /\ [][ManagerInitNext]_vars

SpecList == InitList /\ [][ListNext]_vars

SpecGet == InitGet /\ [][GetNext]_vars

SpecCancel == Init /\ [][NextCancel]_vars

SpecPoll == InitConcurrent /\ [][PollNext]_vars

SpecInstance == InitInstance /\ [][InstanceNext]_vars /\ InstanceFairness

(***************************************************************************)
(* Dependency graphs                                                       *)
(***************************************************************************)
NamesOf(components) == {components[i].Name : i \in DOMAIN components}

\* a.Name -> b for every dependency b of a that is a component of the list
DepEdges(components) ==
    {e \in NamesOf(components) \X NamesOf(components) :
        DependsOn(ComponentNamed(components, e[1]), e[2])}

RECURSIVE ReachedIn(_, _, _)
\* the names reached from a set of names in 1 to k edges
ReachedIn(edges, from, k) ==
    IF k = 0 THEN {}
    ELSE LET next == {e[2] : e \in {x \in edges : x[1] \in from}}
         IN  next \cup ReachedIn(edges, next, k - 1)

Acyclic(components) ==
    \A n \in NamesOf(components) :
        n \notin ReachedIn(DepEdges(components), {n}, Len(components))

\* every dependency names a component of the list
Resolved(components) ==
    \A i \in DOMAIN components : \A k \in DOMAIN components[i].Deps :
        components[i].Deps[k] \in NamesOf(components)

\* no component lists a dependency twice
DepsListedOnce(components) ==
    \A i \in DOMAIN components : \A k, l \in DOMAIN components[i].Deps :
        k # l => components[i].Deps[k] # components[i].Deps[l]

(***************************************************************************)
(* Claims on the state store                                               *)
(***************************************************************************)

\* C4: for every id, each successful Upsert returns an ETag that is, as an
\* integer, strictly greater than every ETag a successful Upsert returned
\* before for the same id.
C4_ReturnedETagIncreases ==
    \A id \in StoreIds :
        \A i \in 1 .. Len(returned[id]) :
            /\ ParseOk(returned[id][i])
            /\ \A j \in 1 .. (i - 1) :
                   /\ ParseOk(returned[id][j])
                   /\ ParseInt(returned[id][j]) < ParseInt(returned[id][i])

\* C5: after a successful Upsert of an id the stored ETag is the previously
\* stored ETag of that id plus one, and "1" when no entry was stored.
C5_StoredETagIsOldPlusOne ==
    lastUpsert.ok =>
        lastUpsert.after = IF lastUpsert.had
                           THEN FormatInt(ParseInt(lastUpsert.before) + 1)
                           ELSE "1"

\* the status map of a body, empty when it has none
StatusOf(body) == IF HasStatusMap(body) THEN body["status"] ELSE EmptyMap

\* C29: an Upsert with UpdateStateOnly on an id without entry returns NotFound
\* and leaves the store as it was; on an id with an entry it succeeds and
\* stores the existing body with the keys of the new body's status map written
\* over its status: the other status keys and the other fields are kept
C29_UpdateStateOnlyMerges ==
    (upserts > 0 /\ lastUpsert.stateOnly) =>
        IF ~lastUpsert.had
        THEN lastUpsert.err = "NotFound" /\ lastUpsert.same
        ELSE /\ lastUpsert.ok
             /\ With(Data[lastUpsert.id].Body, LAMBDA stored :
                    /\ \A f \in DOMAIN lastUpsert.was \ {"status"} :
                           f \in DOMAIN stored /\ stored[f] = lastUpsert.was[f]
                    /\ DOMAIN stored \ {"status"} = DOMAIN lastUpsert.was \ {"status"}
                    /\ \A k \in DOMAIN StatusOf(lastUpsert.body) :
                           /\ k \in DOMAIN StatusOf(stored)
                           /\ StatusOf(stored)[k] = StatusOf(lastUpsert.body)[k]
                    /\ \A k \in DOMAIN StatusOf(lastUpsert.was)
                                 \ DOMAIN StatusOf(lastUpsert.body) :
                           /\ k \in DOMAIN StatusOf(stored)
                           /\ StatusOf(stored)[k] = StatusOf(lastUpsert.was)[k]
                    /\ DOMAIN StatusOf(stored) =
                           DOMAIN StatusOf(lastUpsert.was) \cup DOMAIN StatusOf(lastUpsert.body))

\* the separators of a filter: every "=" is one, alone or in a "!="
SeparatorCount(filter) == Cardinality({i \in DOMAIN filter : filter[i] = "="})

\* C30: a List with a label or a field filter that has no separator, or more
\* than one, fails with BadRequest, whatever the store holds
C30_InvalidFilterRejected ==
    (/\ listOut # <<>>
     /\ listIn.FilterType \in {"label", "field"}
     /\ listIn.FilterValue # <<>>
     /\ SeparatorCount(listIn.FilterValue) # 1) => listOut[1].err = "BadRequest"

\* the sub-document of a body that a status or spec filter looks at yields a
\* result for the path
Selected(body, request) ==
    /\ request.FilterType \in DOMAIN body
    /\ body[request.FilterType].t = "m"
    /\ JsonPathQuery(body[request.FilterType].m, request.FilterValue).err = ""
    /\ JsonPathQuery(body[request.FilterType].m, request.FilterValue).found

\* C31: List with a status (or spec) filter returns exactly the stored entries
\* whose status (or spec) sub-document yields a non-null result for the
\* filter's path; an entry without that sub-document is not returned.
C31_SubDocumentFilterSelects ==
    (/\ listOut # <<>>
     /\ listIn.FilterType \in {"status", "spec"}
     /\ listIn.FilterValue # <<>>)
    => /\ listOut[1].err = ""
       /\ listOut[1].ids = {id \in DOMAIN Data : Selected(Data[id].Body, listIn)}

(***************************************************************************)
(* Claims on the MQTT target provider                                      *)
(***************************************************************************)

\* C3: a Get, Remove or Apply call whose response the transport dropped returns
\* the InternalError of its own timeout.
C3_DroppedResponseTimesOut ==
    (lastDone.dropped /\ lastDone.kind \in {"Get", "Remove", "Apply"}) =>
        (lastDone.how = "timeout" /\ lastDone.err = "InternalError")

\* C19: the dispatcher hands each response to the channel of the operation kind
\* that its call-context names, so the response a call returns carries the
\* call-context of the call's own kind; a response with any other tag is given
\* to no channel and leaves the dispatcher free.
C19_DispatchByKind ==
    /\ [](lastDone.how = "response" => lastDone.ctx = CallContext(lastDone.kind))
    /\ [](dispatcher # <<>> =>
             \E kind \in Kinds : /\ dispatcher[1].ctx = CallContext(kind)
                                 /\ ChannelOf(dispatcher[1].ctx) = kind)
    /\ [][\A msg \in inflight \ inflight' :
             msg.ctx \notin {CallContext(kind) : kind \in Kinds} =>
                 dispatcher' = <<>>]_vars

\* C19 witness: a message with another tag was taken off the topic and an Apply
\* call returned the response of an Apply request
C19_Witness ==
    /\ unsolicited > 0
    /\ \A msg \in inflight : msg.req # 0
    /\ lastDone.how = "response"
    /\ lastDone.kind = "Apply"
    /\ lastDone.ctx = "TargetProvider-Apply"

\* C20: an Init call on a driver that is Initialized returns nil, connects to no
\* broker, subscribes to nothing and makes no channel, and the driver stays
\* Initialized; so the Init calls subscribe to the response topic at most once, and
\* exactly once when a subscription was made at all.
C20_InitIdempotent ==
    /\ [](inits.again => inits.ret = "nil")
    /\ [](inits.subscribes <= 1)
    /\ [](inits.subscribes = 1 => Initialized)
    /\ [][Initialized =>
             /\ Initialized'
             /\ inits'.connects = inits.connects
             /\ inits'.subscribes = inits.subscribes
             /\ inits'.chans = inits.chans]_vars

\* C20 witness: an Init failed to subscribe, a later one succeeded, and one
\* after that returned nil on the Initialized driver
C20_Witness ==
    /\ Initialized
    /\ inits.again
    /\ inits.ret = "nil"
    /\ inits.connects = 2
    /\ inits.subscribes = 1

\* C27: the response that a call returns answers the request that this call
\* published; the late response to a call that timed out is not returned by a
\* later call of the same kind
C27_OwnResponseOnly ==
    lastDone.how = "response" => lastDone.own

\* the states that the subscription callback takes for a success (line 150)
SuccessStates == {"OK", "Accepted"}

\* C21: a NeedsUpdate or NeedsRemove call returns a plain boolean; it returns
\* false when its Publish failed, when its 8 s timeout fired and when the
\* response it received carries a state that is no success, and it returns
\* true exactly when it received a response with a success state
C21_NeedsFalseOnFailure ==
    lastDone.kind \in {"NeedsUpdate", "NeedsRemove"} =>
        /\ lastDone.err = ""
        /\ lastDone.how \in {"publish", "timeout", "response"}
        /\ lastDone.how \in {"publish", "timeout"} => ~lastDone.value
        /\ lastDone.how = "response" =>
               (lastDone.value <=> lastDone.state \in SuccessStates)

\* a NeedsRemove call whose response was dropped has returned false at its
\* timeout
C21_Witness ==
    /\ lastDone.kind = "NeedsRemove"
    /\ lastDone.dropped
    /\ lastDone.how = "timeout"
    /\ ~lastDone.value

(***************************************************************************)
(* Claims on SolutionManager.Init                                          *)
(***************************************************************************)
\* the isTarget property is there and reads as true
TargetModeOn(props) ==
    props.isTarget # <<>> /\ props.isTarget[1] \in ParseBoolTrue

\* the text names a target: one of its parts between commas is not empty
NamesATarget(text) == \E i \in DOMAIN text : text[i] # ","

\* the targetNames property or SYMPHONY_TARGET_NAME provides a target name
NameProvided(props, envName) ==
    \/ props.targetNames # <<>> /\ NamesATarget(props.targetNames[1])
    \/ NamesATarget(envName)

\* C22: an Init that got its providers fails with the target-name error when
\* target mode is on and neither the targetNames property nor
\* SYMPHONY_TARGET_NAME provides a target name, and with target mode off it
\* does not fail with that error
C22_InitFailsWithoutTargetName ==
    (mgrInit.on /\ mgrInit.providers) =>
        /\ (TargetModeOn(mgrInit.props) /\ ~NameProvided(mgrInit.props, mgrInit.envName))
              => mgrInit.err = TargetNameError
        /\ ~TargetModeOn(mgrInit.props) => mgrInit.err = ""

(***************************************************************************)
(* Claims on Reconcile and Poll                                            *)
(***************************************************************************)
\* C26: no two callers wait at the same time on the delivery channel of one
\* kind of the shared provider, the Get that Poll makes after its Reconcile
\* included
C26_OneWaiterPerKind ==
    \A c \in Callers :
        proc[c].waits # "" => \A d \in Callers \ {c} : proc[d].waits # proc[c].waits

UpdateDone == inst.pc = "done" /\ ~inst.deleting /\ inst.seen # ZeroSummary("")

\* the summary's Generation is a number other than the instance's generation
Mismatch == ParseOk(inst.seen.Generation)
            /\ ParseInt(inst.seen.Generation) # inst.generation

\* the summary is older than the 60 seconds (the zero time is)
Old == inst.seen.Time.zero \/ inst.seen.Time.ago > SummaryMaxAgeSeconds

\* the status that updateInstanceStatus writes for the summary
StatusFromSummary ==
    /\ inst.status = (IF inst.seen.SuccessCount = inst.seen.TargetCount
                       THEN "Succeeded" ELSE "Failed")
    /\ inst.deployed = FormatInt(inst.seen.SuccessCount)

\* what C37 says of the jobs and the status
GenerationRule ==
    /\ (~ParseOk(inst.seen.Generation) /\ ~Old)
          => inst.queued = "" /\ StatusFromSummary
    /\ inst.queued = "update" <=> (Mismatch \/ Old)
    /\ inst.status = "Reconciling" => Mismatch

\* C37 as stated: in the update path a summary whose Generation is missing or
\* no integer counts as a match: when it is at most 60 seconds old no job is
\* queued and the status is set from it; a job is queued exactly when the
\* parsed generation differs or the summary is older than 60 seconds, and the
\* status is set to Reconciling only for a generation mismatch.
C37_GenerationMatchDefault == UpdateDone => GenerationRule

\* C37, amended: the rule holds when no call of the update path fails; when
\* fetching the summary fails (other than NotFound) or queuing the job fails,
\* no job is queued, the status is Reconciling and an error is returned.
C37_GenerationMatchUnlessFailure ==
    UpdateDone =>
        /\ inst.ret = "requeue" => GenerationRule
        /\ inst.failed \in {"summary", "queue"}
              => inst.queued = "" /\ inst.status = "Reconciling" /\ inst.ret = "error"
        /\ inst.ret = "error" => inst.failed \in {"summary", "queue", "setstatus"}

\* a fresh summary without a Generation was taken as a match
C37_Witness ==
    /\ UpdateDone
    /\ inst.ret = "requeue"
    /\ inst.seen.err = ""
    /\ inst.seen.Generation = ""
    /\ ~Old
    /\ inst.queued = ""
    /\ inst.status = "Failed"

\* C40: the finalizer of an instance that is being deleted is removed only
\* after the removal job was queued: if queuing the job fails, the finalizer
\* stays, the status is set to Reconciling and the reconcile returns the error.
C40_FinalizerNeedsQueuedJob ==
    inst.deleting =>
        /\ inst.pc \in {"loop", "finalize"} => inst.queued = "remove"
        /\ inst.looped => inst.queued = "remove"
        /\ (inst.pc = "done" /\ inst.queued = ""
               /\ inst.failed \in {"queue", "setstatus"}) =>
              /\ inst.finalizer
              /\ inst.status = "Reconciling"
              /\ inst.ret = "error"
              /\ inst.failed = "queue" => inst.stored = "Reconciling"

\* queuing the removal job has failed
C40_Witness ==
    /\ inst.deleting
    /\ inst.pc = "done"
    /\ inst.failed = "queue"
    /\ inst.queued = ""
    /\ inst.finalizer

(***************************************************************************)
(* Claims on Reconcile                                                     *)
(***************************************************************************)

\* C1: at most one Reconcile call is between acquiring and releasing the lock,
\* and it is the one that holds the lock.
C1_OneReconcileAtATime ==
    /\ Cardinality({c \in Callers : InBody(rc[c])}) <= 1
    /\ \A c \in Callers : InBody(rc[c]) => lockHolder = c

\* C1 witness: a call for one instance runs while a second caller waits for the lock
C1_Witness ==
    \E c, d \in Callers : InBody(rc[c]) /\ rc[c].pc = "steps" /\ rc[d].pc = "lock"

HeartbeatOf(n) == \E h \in hbs : h.n = n

\* C2: whichever way Reconcile returns, the stop channel of its heartbeat is
\* closed and the lock released; the heartbeat task of every call eventually
\* returns, and a caller that waits for the lock eventually gets it.
C2_EveryExitReleases ==
    /\ [][\A c \in Callers :
            (rc[c].pc = "exit" /\ rc'[c].pc = "idle") =>
                /\ lockHolder' = ""
                /\ \A h \in hbs' : h.n = rc[c].n => h.stop]_vars
    /\ \A n \in 1 .. MaxCalls : HeartbeatOf(n) ~> ~HeartbeatOf(n)
    /\ \A c \in Callers : (rc[c].pc = "lock") ~> InBody(rc[c])

\* C2 witness: a call is about to return an error while its heartbeat runs and
\* another caller waits for the lock
C2_Witness ==
    \E c, d \in Callers :
        /\ rc[c].pc = "exit"
        /\ rc[c].err # ""
        /\ HeartbeatOf(rc[c].n)
        /\ rc[d].pc = "lock"

\* C7: when the Apply of a step failed, the result of its target is
\* {Status: "Error", Message: the error}, the summary is stored under
\* "summary-" + instance name before Reconcile returns, and Reconcile returns
\* that error.
C7_ApplyFailureRecorded ==
    \A c \in Callers :
        (rc[c].pc = "exit" /\ rc[c].failedApply # "") =>
            /\ rc[c].failedApply \in DOMAIN rc[c].summary.TargetResults
            /\ rc[c].summary.TargetResults[rc[c].failedApply] =
                   [Status |-> "Error", Message |-> rc[c].err]
            /\ rc[c].err = "apply"
            /\ SummaryKey(rc[c].deployment.Instance) \in DOMAIN Data
            /\ Data[SummaryKey(rc[c].deployment.Instance)].Body.Summary = rc[c].summary

\* C7 witness: the second step of a plan failed in Apply after the first succeeded
C7_Witness ==
    \E c \in Callers :
        /\ rc[c].pc = "exit"
        /\ rc[c].failedApply # ""
        /\ rc[c].applied # {rc[c].failedApply}

\* C8: a Reconcile during which a write to the state store failed returns an error.
C8_StoreFailureIsFatal ==
    \A c \in Callers :
        (rc[c].pc = "exit" /\ rc[c].storeFailed) => rc[c].err # ""

\* C9: the summary of a successful Reconcile has Skipped exactly when no step
\* was applied, and when Skipped its SuccessCount equals its TargetCount.
C9_SkippedCounts ==
    \A c \in Callers :
        (rc[c].pc = "exit" /\ rc[c].err = "") =>
            /\ rc[c].summary.Skipped <=> (rc[c].applied = {})
            /\ rc[c].summary.Skipped =>
                   rc[c].summary.SuccessCount = rc[c].summary.TargetCount

\* C10: a Reconcile directly after a successful one with the same arguments
\* computes the same plan, applies no step and returns Skipped with
\* SuccessCount = TargetCount.
C10_SecondReconcileSkips ==
    \A c \in Callers :
        (rc[c].pc = "exit" /\ rc[c].err = "" /\ rc[c].after.ok) =>
            /\ rc[c].plan = rc[c].after.plan
            /\ rc[c].applied = {}
            /\ rc[c].summary.Skipped
            /\ rc[c].summary.SuccessCount = rc[c].summary.TargetCount

\* C11: a successful Reconcile(remove = true) directly after a successful one
\* with the same arguments leaves the instance's stored deployment state as the
\* first call left it, applies no step and returns Skipped = true.
C11_RemoveTwice ==
    \A c \in Callers :
        (rc[c].pc = "exit" /\ rc[c].err = "" /\ rc[c].after.ok /\ rc[c].args.remove) =>
            /\ getPreviousState(Data, rc[c].deployment.Instance) = rc[c].after.state
            /\ rc[c].applied = {}
            /\ rc[c].summary.Skipped

\* every target of the deployment has "OK" as its recorded target result
AllTargetsOK(summary, deployment) ==
    \A t \in deployment.Targets :
        /\ t \in DOMAIN summary.TargetResults
        /\ summary.TargetResults[t].Status = "OK"

\* C12: after a Reconcile that returns without error and applied at least one
\* step (Skipped = false), SuccessCount = TargetCount if and only if every target
\* of the deployment has "OK" as its last recorded target result.
C12_SuccessCountIffAllOK ==
    \A c \in Callers :
        (rc[c].pc = "exit" /\ rc[c].err = "" /\ ~rc[c].summary.Skipped) =>
            ((rc[c].summary.SuccessCount = rc[c].summary.TargetCount)
                <=> AllTargetsOK(rc[c].summary, rc[c].deployment))

\* no role of the state is a tombstone
NoTombstone(state) ==
    \A k \in DOMAIN state.TargetComponent : ~HasDashPrefix(state.TargetComponent[k])

\* C15: the instance's deployment-state entry is written only after every
\* planned, unfiltered step was skipped or applied successfully: while Reconcile
\* runs and on every error return the entry is what it was before the call
\* (absent for a first invocation), and after a successful return it holds the
\* input spec and the merged state without tombstoned entries.
C15_StateWrittenOnSuccessOnly ==
    \A c \in Callers :
        /\ (rc[c].pc \in {"begin", "steps"} \/ (rc[c].pc = "exit" /\ rc[c].err # "")) =>
               getPreviousState(Data, rc[c].args.deployment.Instance) = rc[c].after.state
        /\ (rc[c].pc = "exit" /\ rc[c].err = "") =>
               /\ rc[c].plannedCount = rc[c].planSuccessCount
               /\ getPreviousState(Data, rc[c].args.deployment.Instance) =
                      <<[Spec |-> rc[c].args.deployment, State |-> rc[c].mergedState]>>
               /\ NoTombstone(rc[c].mergedState)

\* C15 witness: the second call for an instance failed in the Apply of a step
\* after another step was applied, and the entry of the first call is still there
C15_Witness ==
    \E c \in Callers :
        /\ rc[c].pc = "exit"
        /\ rc[c].failedApply # ""
        /\ rc[c].applied # {rc[c].failedApply}
        /\ rc[c].after.state # <<>>
        /\ getPreviousState(Data, rc[c].args.deployment.Instance) = rc[c].after.state

\* the components of the deployment have a dependency cycle
CyclicDeployment(deployment) == ~Acyclic(deployment.Components)

\* the texts Reconcile puts before an error in SummaryMessage
MessagePrefixes ==
    {"failed to evaluate deployment spec: ", "failed to get current state: ",
     "failed to plan for deployment: ", "failed to create provider:"}

C17_SummaryStored ==
    \A c \in Callers :
        rc[c].pc = "exit" =>
            GetSummary(Data, rc[c].args.deployment.Instance) =
                [err |-> "",
                 result |-> [Summary |-> rc[c].summary,
                             Generation |-> rc[c].args.deployment.Generation]]

\* C17 witness: the second call for an instance returned an error, and its
\* summary took the place of the first call's
C17_Witness ==
    \E c \in Callers :
        /\ rc[c].pc = "exit"
        /\ rc[c].err # ""
        /\ rc[c].n = 2
        /\ rc[c].after.state # <<>>
        /\ GetSummary(Data, rc[c].args.deployment.Instance).result.Summary = rc[c].summary

\* C18: the heartbeat task of a Reconcile call publishes no event once the call
\* has returned and closed its stop channel, also when a tick was pending at
\* that moment; and every event it publishes has JobId = the instance name and
\* Action = Delete exactly when remove is true, Update otherwise.
C18_NoHeartbeatAfterStop ==
    /\ \A e \in published : ~e.afterStop
    /\ \A e \in published : \A c \in Callers :
           (InBody(rc[c]) /\ rc[c].n = e.n) =>
               /\ e.JobId = rc[c].args.deployment.Instance
               /\ e.Action = IF rc[c].args.remove THEN "Delete" ELSE "Update"

\* the steps of a call's plan that its filters let through
StepsToRun(r) ==
    {i \in DOMAIN r.plan : ~Filtered(mgrCfg, r.args.targetName, r.plan[i])}

\* C24: a Reconcile that returns the error of a failed Apply has processed
\* every step of its plan, the ones after the failed step included, and has
\* stored its summary
C24_ReconcileContinues ==
    \A c \in Callers :
        (rc[c].pc = "exit" /\ rc[c].failedApply # "") =>
            /\ rc[c].err = "apply"
            /\ rc[c].plannedCount = Cardinality(StepsToRun(rc[c]))
            /\ GetSummary(Data, rc[c].deployment.Instance).result.Summary = rc[c].summary

\* C25: no step of a Reconcile takes an entry out of the store, and a removal
\* that succeeded leaves the instance's entry there, with a state that has no
\* assignments
C25_StateEntryKept ==
    /\ [][\A id \in DOMAIN Data : id \in DOMAIN Data']_vars
    /\ [](\A c \in Callers :
            (rc[c].pc = "exit" /\ rc[c].err = "" /\ rc[c].args.remove) =>
                /\ rc[c].args.deployment.Instance \in DOMAIN Data
                /\ DOMAIN rc[c].mergedState.TargetComponent = {}
                /\ Data[rc[c].args.deployment.Instance].Body.State = rc[c].mergedState)

\* a removal has succeeded for an instance whose entry held assignments: the
\* entry is still there and holds none
C25_Witness ==
    \E c \in Callers :
        /\ rc[c].pc = "exit"
        /\ rc[c].err = ""
        /\ rc[c].args.remove
        /\ rc[c].applied # {}
        /\ rc[c].after.state # <<>>
        /\ DOMAIN rc[c].after.state[1].State.TargetComponent # {}
        /\ rc[c].args.deployment.Instance \in DOMAIN Data
        /\ DOMAIN Data[rc[c].args.deployment.Instance].Body.State.TargetComponent = {}

\* the target is one that the call leaves to others: it differs from a target
\* name given to the call, or the manager is in target mode for other targets
LeftToOthers(r, cfg, target) ==
    \/ r.args.targetName # "" /\ target # r.args.targetName
    \/ cfg.IsTarget /\ target \notin cfg.TargetNames

\* the steps of the plan up to place n that the call does not leave to others
OwnSteps(r, cfg, n) ==
    {i \in 1 .. n : ~LeftToOthers(r, cfg, r.plan[i].Target)}

\* C32: Reconcile resolves no provider for and calls no Apply on a step whose
\* target differs from a non-empty targetName or, in target mode, is not in
\* TargetNames; such steps count neither as planned nor as successful.
C32_FilteredStepsUntouched ==
    \A c \in Callers :
        InBody(rc[c]) =>
            /\ \A t \in rc[c].observed \cup rc[c].resolved \cup rc[c].applied
                       \cup DOMAIN rc[c].targetResult :
                  ~LeftToOthers(rc[c], mgrCfg, t)
            /\ rc[c].pc = "steps" =>
                  /\ rc[c].plannedCount =
                        Cardinality(OwnSteps(rc[c], mgrCfg, rc[c].idx - 1))
                  /\ rc[c].planSuccessCount = rc[c].plannedCount

\* a call has gone past a step that it leaves to others, and applied another
C32_Witness ==
    \E c \in Callers :
        /\ rc[c].pc = "steps"
        /\ rc[c].applied # {}
        /\ \E i \in 1 .. (rc[c].idx - 1) :
              LeftToOthers(rc[c], mgrCfg, rc[c].plan[i].Target)

\* the names of the components of the deployment's target that run the agent
AgentsOn(deployment, target) ==
    IF target \notin DOMAIN deployment.TargetComponents THEN {}
    ELSE {deployment.TargetComponents[target][i].Name :
             i \in {j \in DOMAIN deployment.TargetComponents[target] :
                      LET props == deployment.TargetComponents[target][j].Properties
                      IN  /\ ContainerImage \in DOMAIN props
                          /\ \E k \in DOMAIN props[ContainerImage] :
                                props[ContainerImage][k] = SYMPHONY_AGENT}}

\* C33: the metadata passed to Apply for a step holds SYMPHONY_AGENT_ADDRESS,
\* equal to the name of a component of the step's target whose container.image
\* contains "/symphony-agent:", when the target has such a component, and does
\* not hold the key otherwise, whatever an earlier step has put there.
C33_AgentAddressPerStep ==
    \A c \in Callers :
        \A k \in DOMAIN rc[c].passed :
            LET meta   == rc[c].passed[k].Metadata
                agents == AgentsOn(rc[c].deployment, rc[c].passed[k].Target)
            IN  IF agents # {}
                THEN ENV_NAME \in DOMAIN meta /\ meta[ENV_NAME] \in agents
                ELSE ENV_NAME \notin DOMAIN meta

\* a step with the address was applied before a step for a target without agent
C33_Witness ==
    \E c \in Callers :
        \E k \in DOMAIN rc[c].passed :
            /\ k > 1
            /\ ENV_NAME \in DOMAIN rc[c].passed[k - 1].Metadata
            /\ AgentsOn(rc[c].deployment, rc[c].passed[k].Target) = {}

EvaluationFailure == "failed to evaluate deployment spec: "

\* C35: when evaluating the deployment spec fails, a Reconcile that is no
\* removal stops at once: it saves a summary whose SummaryMessage reports the
\* failure, returns the error, calls no provider and leaves the deployment
\* state as it was; a removal ignores the failure and carries on.
C35_EvaluationFailure ==
    \A c \in Callers :
        (InBody(rc[c]) /\ rc[c].pc # "begin" /\ rc[c].evalFailed) =>
            IF rc[c].args.remove
            THEN /\ rc[c].err # "eval"
                 /\ rc[c].summary.SummaryMessage # EvaluationFailure \o "eval"
                 /\ rc[c].pc = "exit" /\ rc[c].err = "" => rc[c].summary.IsRemoval
            ELSE /\ rc[c].pc = "exit"
                 /\ rc[c].err = "eval"
                 /\ rc[c].summary.SummaryMessage = EvaluationFailure \o "eval"
                 /\ GetSummary(Data, rc[c].deployment.Instance).err = ""
                 /\ GetSummary(Data, rc[c].deployment.Instance).result.Summary
                      = rc[c].summary
                 /\ rc[c].observed = {} /\ rc[c].resolved = {} /\ rc[c].applied = {}
                 /\ getPreviousState(Data, rc[c].deployment.Instance) = rc[c].after.state

\* the evaluation failed in a call that replaces a deployment that is there
C35_Witness ==
    \E c \in Callers :
        /\ rc[c].pc = "exit"
        /\ rc[c].evalFailed
        /\ ~rc[c].args.remove
        /\ rc[c].after.state # <<>>

\* the evaluation failed in a removal that went on to delete components
C35_RemovalWitness ==
    \E c \in Callers :
        /\ rc[c].pc = "exit"
        /\ rc[c].evalFailed
        /\ rc[c].args.remove
        /\ rc[c].err = ""
        /\ rc[c].applied # {}

\* C36: when the caller's context is cancelled while Reconcile runs, the next
\* provider call is aborted and not carried out, the steps already applied are
\* not rolled back, and the saved summary holds the results of the steps that
\* were completed before the cancellation.
C36_CancelAbortsNextCall ==
    \A c \in Callers :
        /\ rc[c].late = {}
        /\ (rc[c].pc = "exit" /\ rc[c].cancelled) =>
              /\ GetSummary(Data, rc[c].deployment.Instance).result.Summary
                   = rc[c].summary
              /\ \A t \in rc[c].applied \ {rc[c].failedApply} :
                    /\ t \in DOMAIN rc[c].summary.TargetResults
                    /\ rc[c].summary.TargetResults[t].Status = "OK"

\* the summaries that are in the store
SavedSummaries ==
    {Data[id].Body.Summary : id \in {x \in DOMAIN Data : "Summary" \in DOMAIN Data[x].Body}}

\* C38: in every summary that Reconcile saves, 0 <= SuccessCount <= TargetCount,
\* with TargetCount the number of targets of the input deployment, also when the
\* plan has steps for targets of the previous desired state that the new spec
\* no longer has.
C38_SuccessCountBounded ==
    \A summary \in SavedSummaries :
        0 <= summary.SuccessCount /\ summary.SuccessCount <= summary.TargetCount

\* what the instance reconciler's poll reads when it fetches the summary of
\* the instance
PollReads(data, instance) ==
    With(GetSummary(data, instance), LAMBDA got :
        IF got.err # ""
        THEN [err |-> got.err, IsRemoval |-> FALSE, SuccessCount |-> 0, TargetCount |-> 0]
        ELSE [err |-> "", IsRemoval |-> got.result.Summary.IsRemoval,
              SuccessCount |-> got.result.Summary.SuccessCount,
              TargetCount |-> got.result.Summary.TargetCount])

\* C39: after a Reconcile(remove = true) that returns without error the saved
\* summary has IsRemoval = true and SuccessCount = TargetCount, the condition
\* that the instance reconciler's removal poll waits for, so the poll's next
\* sample confirms the removal and the finalizer goes without the timeout.
C39_RemovalConfirmedByPoll ==
    \A c \in Callers :
        (rc[c].pc = "exit" /\ rc[c].err = "" /\ rc[c].args.remove) =>
            /\ GetSummary(Data, rc[c].deployment.Instance).err = ""
            /\ GetSummary(Data, rc[c].deployment.Instance).result.Summary.IsRemoval
            /\ RemovalConfirmed(PollReads(Data, rc[c].deployment.Instance))

(***************************************************************************)
(* Claims on SolutionManager.Get                                           *)
(***************************************************************************)
\* the steps of the deployment's plan that the call does not leave to others
OwnPlan(in) ==
    SelectSeq(PlanForDeployment(in.deployment, NewDeploymentState(in.deployment)).Steps,
              LAMBDA step :
                  /\ in.targetName # "" => step.Target = in.targetName
                  /\ in.cfg.IsTarget => step.Target \in in.cfg.TargetNames)

RECURSIVE Observations(_, _)
\* what the providers of the steps hold of the steps' components, step by step
Observations(steps, has) ==
    IF steps = <<>> THEN <<>>
    ELSE With(ProviderGet(has[Head(steps).Target], Head(steps).Components),
              LAMBDA seen :
                  [i \in DOMAIN seen |-> [c |-> seen[i], Target |-> Head(steps).Target]])
         \o Observations(Tail(steps), has)

\* the place of the first observation of the name
FirstAt(all, name) ==
    CHOOSE i \in DOMAIN all :
        /\ all[i].c.Name = name
        /\ \A j \in 1 .. (i - 1) : all[j].c.Name # name

\* what C34 says of a Get that returned out for the observations all
GetReturnsObserved(out, all) ==
    /\ \A i, j \in DOMAIN out.components :
          i # j => out.components[i].Name # out.components[j].Name
    /\ {out.components[i].Name : i \in DOMAIN out.components}
          = {all[i].c.Name : i \in DOMAIN all}
    /\ \A i \in DOMAIN out.components :
          out.components[i] = all[FirstAt(all, out.components[i].Name)].c
    /\ \A i, j \in DOMAIN out.components :
          i < j => FirstAt(all, out.components[i].Name)
                     < FirstAt(all, out.components[j].Name)
    /\ DOMAIN out.state.TargetComponent
          = {Key(all[i].c.Name, all[i].Target) : i \in DOMAIN all}
    /\ \A i \in DOMAIN all :
          out.state.TargetComponent[Key(all[i].c.Name, all[i].Target)]
            = IF all[i].c.Type = "" THEN "container" ELSE all[i].c.Type

\* C34: SolutionManager.Get calls only the providers' Get and writes nothing to
\* the state store; the components it returns hold every observed name once, as
\* first observed in the order of the steps, and the state it returns has the
\* key "<component>::<target>" for exactly the components observed on the
\* targets that are not filtered out, with the component's Type, or "container"
\* for an empty Type, as role.
C34_GetOnlyObserves ==
    /\ [](getOut # <<>> /\ getOut[1].err = ""
            => GetReturnsObserved(getOut[1], Observations(OwnPlan(getIn), getIn.has)))
    /\ [][getOut' # getOut => Data' = Data /\ deployed' = deployed]_vars

\* Get has returned a component that two of the targets hold, in two versions
C34_Witness ==
    /\ getOut # <<>>
    /\ getOut[1].err = ""
    /\ \E i, j \in DOMAIN Observations(OwnPlan(getIn), getIn.has) :
          /\ i < j
          /\ Observations(OwnPlan(getIn), getIn.has)[i].c.Name
               = Observations(OwnPlan(getIn), getIn.has)[j].c.Name
          /\ Observations(OwnPlan(getIn), getIn.has)[i].c
               # Observations(OwnPlan(getIn), getIn.has)[j].c

(***************************************************************************)
(* Claims on the skip detection                                            *)
(***************************************************************************)

Bound(state, name, target) == Key(name, target) \in DOMAIN state.TargetComponent

\* what the claim asks of one (component, action) of a step
SkippableEntry(entry, target, current, state) ==
    LET name == entry.Component.Name
    IN  \/ /\ entry.Action = "delete"
           /\ ~\E i \in DOMAIN current :
                  current[i].Name = name /\ Bound(state, name, target)
        \/ /\ entry.Action = "update"
           /\ \E i \in DOMAIN current :
                  /\ current[i].Name = name
                  /\ Bound(state, name, target)
                  /\ ~HasDashPrefix(state.TargetComponent[Key(name, target)])
                  /\ ~IsComponentChanged(current[i], entry.Component)

\* C6: canSkipStep returns true if and only if every (component, action) of the
\* step is a delete of a component that is not bound to the target, or an update
\* of a component bound with a non-tombstone role that the rule reports unchanged.
C6_CanSkipIff ==
    skipOut # <<>> =>
        (skipOut[1] <=> \A i \in DOMAIN skipIn.step.Components :
                        SkippableEntry(skipIn.step.Components[i], skipIn.step.Target,
                                       skipIn.current, skipIn.state))

\* C6 witness: a step with an update and a delete was found skippable, and a step
\* that updates a tombstoned component was not
C6_Witness ==
    /\ skipOut = <<TRUE>>
    /\ \E i, j \in DOMAIN skipIn.step.Components :
          /\ skipIn.step.Components[i].Action = "update"
          /\ skipIn.step.Components[j].Action = "delete"

(***************************************************************************)
(* Claims on the dependency sort                                           *)
(***************************************************************************)

\* the call returned a list of as many components as it was given
SortedAll == sortOut[1].err = "" /\ Len(sortOut[1].list) = Len(sortIn.components)

\* the call returned the error and no list
SortFailed == sortOut[1].err = SortError /\ sortOut[1].list = <<>>

\* C13 as stated: sortByDepedencies returns a list of exactly as many components
\* as it was given if and only if the dependency graph of those components is
\* acyclic, and the circular-or-unresolved-dependencies error and no list in
\* every other case.
C13_SortsIffAcyclic ==
    sortOut # <<>> =>
        /\ SortedAll <=> Acyclic(sortIn.components)
        /\ ~SortedAll => SortFailed

\* C13: sortByDepedencies returns a list of exactly as many components as it was
\* given if and only if the dependency graph is acyclic, every dependency names a
\* component of the list and no component lists a dependency twice; in every
\* other case it returns the circular-or-unresolved-dependencies error and no list.
C13_SortsIffAcyclicAndResolved ==
    sortOut # <<>> =>
        /\ SortedAll <=> /\ Acyclic(sortIn.components)
                          /\ Resolved(sortIn.components)
                          /\ DepsListedOnce(sortIn.components)
        /\ ~SortedAll => SortFailed

\* C13 witness: three components, one that depends on the two others and one
\* that depends on the third, were sorted
C13_Witness ==
    /\ sortOut # <<>>
    /\ SortedAll
    /\ Len(sortIn.components) = 3
    /\ Cardinality(DepEdges(sortIn.components)) = 3

PositionOf(list, name) == CHOOSE i \in DOMAIN list : list[i].Name = name

\* C14: in every ordering the sort produces, a component comes after each of its
\* dependencies that is present, and the output is a permutation of the input:
\* every component of the input exactly once.
C14_DependenciesFirst ==
    (sortOut # <<>> /\ sortOut[1].err = "") =>
        /\ Len(sortOut[1].list) = Len(sortIn.components)
        /\ \A i \in DOMAIN sortIn.components :
               Cardinality({k \in DOMAIN sortOut[1].list :
                               sortOut[1].list[k] = sortIn.components[i]}) = 1
        /\ \A e \in DepEdges(sortIn.components) :
               PositionOf(sortOut[1].list, e[2]) < PositionOf(sortOut[1].list, e[1])

\* C14 witness: components given with the dependent ones first came out with
\* their dependencies first
C14_Witness ==
    /\ sortOut # <<>>
    /\ sortOut[1].err = ""
    /\ Len(sortIn.components) = 3
    /\ \E e \in DepEdges(sortIn.components) :
          PositionOf(sortIn.components, e[1]) < PositionOf(sortIn.components, e[2])
    /\ sortOut[1].list # sortIn.components

\* the components of the list that are ready once the first k components of
\* the output are emitted: not emitted yet, every dependency emitted
ReadyAfter(components, out, k) ==
    {i \in DOMAIN components :
        /\ \A m \in 1 .. k : out[m] # components[i]
        /\ \A d \in DOMAIN components[i].Deps :
               \E m \in 1 .. k : out[m].Name = components[i].Deps[d]}

\* the number of components emitted when the component became ready: the
\* position in the output of the dependency that is emitted last, 0 without
\* dependencies
ReadySince(components, out, i) ==
    IF components[i].Deps = <<>> THEN 0
    ELSE CHOOSE m \in DOMAIN out :
            /\ DependsOn(components[i], out[m].Name)
            /\ \A n \in DOMAIN out : DependsOn(components[i], out[n].Name) => n <= m

\* C28 as stated: every component of the output is, of the components ready
\* when it is emitted, the one that comes first in the list given
C28_ReadyInListOrder ==
    (sortOut # <<>> /\ sortOut[1].err = "") =>
        \A k \in DOMAIN sortOut[1].list :
            \A i \in ReadyAfter(sortIn.components, sortOut[1].list, k - 1) :
                PositionOf(sortIn.components, sortOut[1].list[k].Name) <= i

\* C28, amended: the output depends on the list alone, and its components come
\* in the order in which they became ready; those that became ready by the
\* same emission, or had no dependency, come in the order of the list given
C28_ReadyFirstThenListOrder ==
    (sortOut # <<>> /\ sortOut[1].err = "") =>
        /\ Len(sortOut[1].list) = Len(sortIn.components)
        /\ \A i, j \in DOMAIN sortIn.components :
               With(ReadySince(sortIn.components, sortOut[1].list, i), LAMBDA ri :
               With(ReadySince(sortIn.components, sortOut[1].list, j), LAMBDA rj :
                   (ri < rj \/ (ri = rj /\ i < j)) =>
                       PositionOf(sortOut[1].list, sortIn.components[i].Name)
                           < PositionOf(sortOut[1].list, sortIn.components[j].Name)))

\* C28 witness: two components without dependencies came out in the order of
\* the list, and the second of them came out before a component that is listed
\* before it and was ready when it was emitted
C28_Witness ==
    /\ sortOut # <<>>
    /\ sortOut[1].err = ""
    /\ Len(sortIn.components) = 3
    /\ sortIn.components[1].Deps = <<>>
    /\ sortIn.components[2].Deps = <<sortIn.components[1].Name>>
    /\ sortIn.components[3].Deps = <<>>
    /\ sortOut[1].list = <<sortIn.components[1], sortIn.components[3],
                           sortIn.components[2]>>

=============================================================================
